---- MODULE Spec2Model ----
(***************************************************************************)
(* State-machine model of the KENYASHIP backend core:                      *)
(*   - delivery verifier      (services/delivery-verification/verifier.ts) *)
(*   - emergency orchestrator (services/emergency-response/orchestrator.ts)*)
(*   - real-time broadcaster  (services/realtime-broadcast/broadcaster.ts) *)
(* Every exported operation is one atomic action: the handlers are         *)
(* synchronous JavaScript (the only awaits resolve without yielding to     *)
(* another handler before the state updates are done).                     *)
(***************************************************************************)
EXTENDS Integers, Sequences, FiniteSets, TLC

VARIABLES
    now,                \* wall clock (Date.now()), in seconds
    otpStore,           \* Map<UUID, OTPRecord>, in insertion order
    photoStore,         \* Map<UUID, DeliveryPhoto>, in insertion order
    signatureStore,     \* Map<UUID, DeliverySignature>, in insertion order
    verificationStore,  \* Map<deliveryId, DeliveryVerification>
    deliverySecrets,    \* deliveries that own a TOTP secret
    attemptIncrements,  \* history: per delivery, verifyOTP calls that incremented an attemptCount
    probe,              \* history: per delivery, the run of verifyOTP calls made so far
    emergencyContacts,    \* Map<driverId, contacts>
    emergencyStore,       \* Map<UUID, EmergencyRecord>, in insertion order (id = position)
    activeEmergencies,    \* Map<driverId, emergencyId> (0: no entry)
    accelerometerHistory, \* Map<driverId, readings>
    lastPanic,            \* history: per driver, the id the last triggerPanicButton returned
                          \* since the driver's last resolveEmergency (0: none)
    connected,          \* socket ids with an open connection
    clients,            \* Map<socketId, {userId, role}> (NoClient: no entry)
    socketRooms,        \* socket.io: per socket, the delivery rooms it joined
    deliveryRooms,      \* Map<deliveryId, Set<socketId>>
    offlineQueue,       \* Map<userId, RealtimeEvent[]> (<<>>: no entry)
    eventCtr,           \* broadcast calls made so far (an event is named by its call)
    queuedLog,          \* history: per user, every event pushed on the offline queue
    drainedLog,         \* history: per user, every event emitted from the queue by authenticate
    queuedSinceDrain,   \* history: per user, the events pushed since the queue was last emptied
    notificationStore,  \* Map<UUID, NotificationRecord>, in insertion order (id = position)
    userPreferences,    \* Map<userId, {channels, quiet}> (NoPreferences: no entry)
    rateLimitStore,     \* Map<"notify:recipient:channel", {count, resetAt}> (NoRateLimit: no entry)
    retryTimers,        \* notifications with a pending setTimeout of scheduleRetry
    notifyLog,          \* history: per notification, delays scheduled, adapter calls, success seen
    acceptedAt,         \* history: per (recipient, channel), the times of the accepted sends
    alertStore,         \* Map<UUID, SecurityAlert>, in insertion order (id = position)
    deliveryAlerts,     \* Map<deliveryId, alertIds>
    driverHistory,      \* Map<driverId, LocationHistoryEntry[]>
    expectedRoutes,     \* Map<deliveryId, ExpectedRoute> (NoRoute: no entry)
    movementLog,        \* history: the movementState each driver reported, in order
    reqUser,            \* req.user of the request being served (NoUser: undefined)
    resStatus,          \* status a middleware has answered that request with (0: none yet)
    sealed,             \* the encrypt call under examination: text, contextId, result
    opened,             \* the decrypt call made on that result: contextId, outcome
    issuedCodes,        \* history: the DeliveryCode records generateDeliveryCode returned
    inFlight            \* per socket: events emitted to it that have not reached the client

verifierVars == <<now, otpStore, photoStore, signatureStore, verificationStore,
                  deliverySecrets, attemptIncrements, probe>>

emergencyVars == <<emergencyContacts, emergencyStore, activeEmergencies,
                   accelerometerHistory, lastPanic>>

broadcastVars == <<connected, clients, socketRooms, deliveryRooms, offlineQueue,
                   eventCtr, queuedLog, drainedLog, queuedSinceDrain>>

notifierVars == <<notificationStore, userPreferences, rateLimitStore, retryTimers,
                  notifyLog, acceptedAt>>

monitorVars == <<alertStore, deliveryAlerts, driverHistory, expectedRoutes, movementLog>>

httpVars == <<reqUser, resStatus>>

cryptoVars == <<sealed, opened>>

codeVars == <<issuedCodes>>

wireVars == <<inFlight>>

vars == <<verifierVars, emergencyVars, broadcastVars, notifierVars, monitorVars, httpVars,
          cryptoVars, codeVars, wireVars>>

----------------------------------------------------------------------------
(* Bounds of the model *)

MaxOtpRecords == 1      \* Spec: OTP records generated in one run
MaxPhotos == 1          \* Spec: photos stored in one run
MaxSignatures == 1      \* Spec: signatures stored in one run
MaxVerifyCalls == 1     \* Spec: length of a tracked run of verifyOTP calls
MaxOtpTicks == 2        \* SpecOtp: clock advances at most this many times
MaxOtpGenerated == 2    \* SpecOtp: OTP records generated in one run
MaxOtpVerifyCalls == 6  \* SpecOtp: length of a tracked run of verifyOTP calls

MaxEmergencies == 2     \* SpecEmergency: emergency records created in one run
MaxReadings == 1        \* SpecEmergency: accelerometer readings kept per driver in one run

MaxEvents == 3          \* SpecBroadcast: broadcast calls in one run
MaxQueuedEvents == 52   \* SpecQueue: broadcast calls in one run

MaxNotifications == 1   \* SpecNotify: notifications sent in one run
MaxRateSends == 12      \* SpecRate: sendNotification calls in one run
MaxRateWindows == 2     \* SpecRate: rate-limit windows the clock runs through

MaxTextLen == 3         \* SpecCrypto: longest plaintext handed to encrypt

MaxCodes == 2           \* SpecCodes: generateDeliveryCode calls in one run
MaxCodeTicks == 1       \* SpecCodes: clock advances in one run

MaxLocationUpdates == 6 \* SpecTamper: processLocationUpdate calls in one run
MaxTamperTicks == 4     \* SpecTamper: clock advances in one run
MaxStopUpdates == 4     \* SpecStop: processLocationUpdate calls in one run
MaxStopTicks == 3       \* SpecStop: clock advances in one run

MaxHistoryUpdates == 102 \* SpecHistory: processLocationUpdate calls in one run
MaxOtherUpdates == 1    \* SpecHistory: of these, the calls for the second driver
MaxClosureEvents == 4   \* SpecClosure: broadcast calls in one run

MaxAlerts == 2          \* SpecMonitor: alerts created in one run
MaxMonitorTicks == 3    \* SpecMonitor: clock advances in one run

(* Program constants *)

otpTtlSeconds == 300            \* config.otpTtlSeconds (TOTP step and record TTL)
MaxOtpAttempts == 5             \* verifyOTP: attemptCount >= 5
DEFAULT_GEOFENCE_RADIUS == 100  \* metres

impactGForce == 4               \* THRESHOLDS.impactGForce
MaxAccelerometerHistory == 30   \* processAccelerometerData: history.length > 30

OfflineQueueLimit == 50         \* broadcast: queue.length > 50

rapidZoneChanges == 5           \* THRESHOLDS.rapidZoneChanges
rapidWindowMinutes == 5         \* checkRapidZoneChanges: timeWindow = 5 * 60 * 1000
unusualStopMinutes == 15        \* THRESHOLDS.unusualStopMinutes
stopRecentEntries == 10         \* checkUnusualStop: history.slice(-10)
stopMinEntries == 3             \* checkUnusualStop: at least 3 entries, at least 3 stationary
recentStopAlertMinutes == 30    \* checkUnusualStop: Date.now() - 30 * 60 * 1000
HistoryLimit == 100             \* processLocationUpdate: history.length > 100
communicationLossMinutes == 10  \* THRESHOLDS.communicationLossMinutes
recentCommAlertMinutes == 15    \* checkCommunicationLoss: Date.now() - 15 * 60 * 1000
highSilentMinutes == 30         \* checkCommunicationLoss: silentMinutes > 30

RateLimitMax == 10              \* sendNotification: rateLimit.count >= 10
RateWindowSeconds == 60         \* sendNotification: resetAt = Date.now() + 60000
RETRY_DELAYS == <<1000, 5000, 30000, 60000, 300000>>   \* ms
DefaultRetryDelay == 60000      \* scheduleRetry: RETRY_DELAYS[retryCount] ?? 60000

Deliveries == {"d1", "d2"}
\* The deliveries whose verification is driven; the other deliveries only get
\* records of their own, next to which the driven ones are handled.
Driven == {"d1"}
Recipients == {"r1"}
Methods == {"otp", "code", "photo", "signature", "geofence", "biometric"}

\* Required-method lists offered to initializeVerification (the route accepts
\* any array over the six methods, the empty one included).
RequiredChoices == {<<>>, <<"otp">>, <<"otp", "photo">>, <<"geofence", "signature">>}

\* calculateDistance(driverLocation, deliveryLocation), in metres.
Distances == {16, 100, 101}

WrongToken == -1
\* A token is named by the TOTP counter it was generated for; WrongToken
\* stands for any digit string that matches no counter of the delivery.
Tokens == {WrongToken} \cup (0 .. MaxOtpTicks)

Drivers == {"u1", "u2"}
Locations == {"locA"}           \* raw coordinates
NoDelivery == "none"            \* deliveryId left out of the call
ContactLists == {<<>>, <<"c1">>}
OptDeliveries == {"d1"}         \* deliveryId passed along with an emergency
\* Accelerometer readings (x, y, z): one below the impact threshold
\* (magnitude^2 = 12) and one exactly at it (magnitude^2 = 16).
Readings == {[x |-> 2, y |-> 2, z |-> 2], [x |-> 0, y |-> 0, z |-> 4]}

\* Real-time broadcaster inputs.
Sessions == {"s1", "s2"}        \* socket ids
Users == {"u1", "u2"}
ClientRoles == {"customer", "admin"}   \* roles a client authenticates with
RoomDeliveries == {"d1"}
NoClient == [userId |-> "none", role |-> "none"]
\* A caller may name a user twice: the event is then queued twice.
UserIdLists == {<<>>, <<"u1">>, <<"u1", "u2">>, <<"u2", "u2">>}
RoleLists == {<<>>, <<"security_officer", "admin">>}
\* event.audience: deliveryId, userIds and roles are each optional.
Audiences ==
    {[deliveryId |-> d, userIds |-> us, roles |-> rs] :
        d \in {NoDelivery} \cup RoomDeliveries, us \in UserIdLists, rs \in RoleLists}
\* The offline-queue run: one socket, one user, events addressed to that user.
QueueSessions == {"s1"}
QueueUsers == {"u1"}
QueueAudiences == {[deliveryId |-> NoDelivery, userIds |-> <<"u1">>, roles |-> <<>>]}

\* verifyGeofence: the driver's raw fix (RawCoordinates), in whole degrees.
DriverFixes == {[latitude |-> -1, longitude |-> 36]}
\* Requests seen by auditMiddleware.
HttpMethods == {"GET", "POST"}
HttpPaths == {"verification", "security", "emergency"}
StatusCodes == {200, 403, 500}
AlertTypes == {"communication_lost", "route_deviation"}
Severities == {"medium", "high"}
DeliveryStatuses == {"in_transit", "delivered"}
ZoneDescriptions == {"none", "Westlands area"}

\* Encryption inputs: plaintexts are strings over a small alphabet, the empty
\* string included; contexts are delivery ids; an iv is what randomBytes(12)
\* drew.
TextChars == {"a", "b", "c"}
Plaintexts == UNION {[1 .. n -> TextChars] : n \in 0 .. MaxTextLen}
Contexts == {"d1", "d2"}
IVs == {"iv1", "iv2"}

\* Signature inputs: signatureData is any string (an SVG path or a base64
\* image); a signer name is optional.
NoSignerName == <<>>
NoCiphertext == <<>>
SignerNames == {NoSignerName, <<"a">>}
SampleSignatures == {<<"a", "b", "c">>}

\* Code generator inputs. A theme is one of THEMES, a name THEMES does not
\* have, or a name every JavaScript object inherits from Object.prototype.
CodeDeliveries == {"d1", "d2"}
CodeUsers == {"u1", "system"}
ThemeInputs == {"safari", "coastal", "ocean", "toString"}
ObjectPrototypeNames == {"toString", "constructor", "hasOwnProperty", "valueOf"}
CodeValidityHours == 24

\* Access control inputs.
Roles == {"customer", "driver", "dispatcher", "security_officer", "admin", "system"}
Wildcard == "*"
\* const ROLE_PERMISSIONS
ROLE_PERMISSIONS ==
    [role \in Roles |->
        CASE role = "customer" ->
                 <<"read:own_delivery", "write:own_delivery_consent", "read:own_notification">>
          [] role = "driver" ->
                 <<"read:assigned_delivery", "write:delivery_status", "read:emergency",
                   "write:emergency">>
          [] role = "dispatcher" ->
                 <<"read:all_delivery", "write:delivery_assignment", "read:emergency",
                   "read:audit">>
          [] role = "security_officer" ->
                 <<"read:security_alert", "write:security_alert", "read:emergency",
                   "read:audit", "read:location_history">>
          [] OTHER -> <<Wildcard>>]
\* Permissions a guard may name: every granted one, the wildcard and one that
\* no role is granted by name.
Permissions ==
    UNION {{ROLE_PERMISSIONS[r][i] : i \in 1 .. Len(ROLE_PERMISSIONS[r])} : r \in Roles}
        \cup {"write:audit"}
NoUser == [id |-> "none", role |-> "none", permissions |-> <<>>]
HttpUsers == {"u1"}
\* The Authorization header: absent, another scheme, a Bearer token that
\* jwt.verify rejects, or a Bearer token that decodes to {userId, role}.
AuthHeaders ==
    {[scheme |-> "none", valid |-> FALSE, userId |-> "none", role |-> "none"],
     [scheme |-> "Basic", valid |-> FALSE, userId |-> "none", role |-> "none"],
     [scheme |-> "Bearer", valid |-> FALSE, userId |-> "none", role |-> "none"]}
        \cup {[scheme |-> "Bearer", valid |-> TRUE, userId |-> u, role |-> r] :
                  u \in HttpUsers, r \in Roles}

\* Location update inputs. Zone ids are opaque H3 indexes that the checks only
\* compare with each other, so a run names them in order of first appearance.
MovementStates == {"stationary", "moving", "unknown"}
NoRoute == <<0>>         \* no entry in expectedRoutes; zone ids start at 1
ExpectedRoutes == {<<2>>}
TamperQuantum == (5 * 60) \div 3        \* SpecTamper: one clock advance, in seconds
StopQuantum == 15 * 60          \* SpecStop: one clock advance, in seconds

\* Cargo monitor inputs.
MonitorDeliveries == {"d1"}
MonitorQuantum == 5 * 60        \* one clock advance of the monitor run, in seconds
\* How long ago the last fix was seen (Date.now() - lastSeenAt), in seconds.
SilentSeconds == {300, 600, 1800, 2100}
Officers == {"o1"}
ResolutionStatuses == {"false_positive", "resolved"}
NoResolution == [status |-> "none", resolvedBy |-> "none"]
NoOne == "none"

\* Notifier inputs.
NotifyRecipients == {"u1"}
Channels == {"sms", "email"}
Priorities == {"normal", "critical"}
ChannelLists == {<<>>, <<"sms">>}
NoPreferences == <<"none">>
NoRateLimit == [count |-> 0, resetAt |-> 0]
RateKeys == NotifyRecipients \X Channels

Range(s) == {s[i] : i \in 1 .. Len(s)}

Abs(x) == IF x < 0 THEN -x ELSE x

----------------------------------------------------------------------------
(* Pure helpers *)

\* One clock advance is one OTP lifetime.
ClockQuantum == otpTtlSeconds

\* otplib: counter = floor(epoch / step)
TotpCounter(t) == t \div otpTtlSeconds

\* totp.generate(secret) at time t
TotpGenerate(t) == TotpCounter(t)

\* totp.verify({token, secret}) with options.window = 1
TotpVerify(token, t) ==
    /\ token # WrongToken
    /\ Abs(TotpCounter(t) - token) <= 1

\* hmacSha256(deliveryId, config.hmacSecret): lowercase hex digest (first 8 digits)
HmacSha256Hex(d) ==
    IF d = "d1" THEN <<"3", "f", "a", "9", "c", "0", "1", "b">>
                ELSE <<"b", "0", "7", "e", "4", "4", "d", "2">>

UpperChar(c) ==
    CASE c = "a" -> "A" [] c = "b" -> "B" [] c = "c" -> "C"
      [] c = "d" -> "D" [] c = "e" -> "E" [] c = "f" -> "F"
      [] OTHER -> c

\* String.prototype.toUpperCase
ToUpperCase(s) == [i \in 1 .. Len(s) |-> UpperChar(s[i])]

\* hmacSha256(...).substring(0, 8).toUpperCase()
ExpectedFallbackCode(d) == ToUpperCase(SubSeq(HmacSha256Hex(d), 1, 8))

FallbackCodes ==
    {ExpectedFallbackCode(d) : d \in Deliveries}
        \cup {HmacSha256Hex("d1")}
        \cup {<<"0", "0", "0", "0", "0", "0", "0", "0">>}

----------------------------------------------------------------------------
(* crypto/encryption.ts: AES-256-GCM under a key derived from the context.   *)
(* A string is its sequence of characters; a ciphertext "iv:authTag:body" is *)
(* the triple of its parts.                                                  *)

\* createHmac('sha256', config.encryptionKey).update(contextId).digest()
derivedKey(contextId) == <<"key", contextId>>

\* cipher.update(text) + cipher.final(): GCM keeps the length, so the body of
\* the empty text is the empty string.
cipherBody(key, iv, text) == [i \in 1 .. Len(text) |-> <<key, iv, i, text[i]>>]

\* cipher.getAuthTag()
authTagOf(key, iv, body) == <<"tag", key, iv, body>>

\* encrypt(text, contextId), with iv = crypto.randomBytes(12)
encrypt(text, contextId, iv) ==
    LET key == derivedKey(contextId)
        body == cipherBody(key, iv, text)
    IN  <<iv, authTagOf(key, iv, body), body>>

DecryptOk(text) == [error |-> "none", value |-> text]
DecryptError(message) == [error |-> message, value |-> <<>>]

\* decrypt(encryptedText, contextId): the value returned or the error thrown.
decrypt(encryptedText, contextId) ==
    LET iv == encryptedText[1]
        authTag == encryptedText[2]
        body == encryptedText[3]
        key == derivedKey(contextId)
    IN  IF body = <<>>
           THEN DecryptError("Invalid encryption format")
           ELSE IF authTag # authTagOf(key, iv, body)
                   THEN DecryptError("auth_failed")
                   ELSE DecryptOk([i \in 1 .. Len(body) |-> body[i][4]])

\* sha256(data)
sha256(data) == <<"sha256", data>>

NotSealed == [text |-> <<>>, contextId |-> "none", encrypted |-> <<>>]
NotOpened == [contextId |-> "none", outcome |-> DecryptError("none")]

----------------------------------------------------------------------------
NoVerification ==
    [exists |-> FALSE, methodsRequired |-> <<>>, methodsCompleted |-> <<>>,
     isComplete |-> FALSE]

\* methodsRequired.every(m => methodsCompleted.includes(m))
AllComplete(required, completed) ==
    \A i \in 1 .. Len(required) : required[i] \in Range(completed)

\* updateVerification(deliveryId, method): the verificationStore it leaves.
updateVerification(store, d, method) ==
    LET v == store[d]
        completed == IF method \in Range(v.methodsCompleted)
                        THEN v.methodsCompleted
                        ELSE Append(v.methodsCompleted, method)
        finishes == AllComplete(v.methodsRequired, completed) /\ ~v.isComplete
    IN  IF ~v.exists
           THEN store
           ELSE [store EXCEPT ![d] =
                    [v EXCEPT !.methodsCompleted = completed,
                              !.isComplete = v.isComplete \/ finishes]]

\* Mutant of PendingIndex: the search forgets the !record.isVerified test.
PendingIndex_IgnoringVerified(store, d) ==
    LET idx == {i \in 1 .. Len(store) : store[i].deliveryId = d}
    IN  IF idx = {} THEN 0 ELSE CHOOSE i \in idx : \A j \in idx : i <= j

\* The record verifyOTP picks: the first one in otpStore for the delivery
\* that is not verified (0 when there is none).
PendingIndex(store, d) ==
    LET idx == {i \in 1 .. Len(store) : store[i].deliveryId = d /\ ~store[i].isVerified}
    IN  IF idx = {} THEN 0 ELSE CHOOSE i \in idx : \A j \in idx : i <= j

NoRemaining == -1   \* remainingAttempts absent from the result

VerifyResult(isValid, reason, remaining) ==
    [isValid |-> isValid, reason |-> reason, remainingAttempts |-> remaining]

\* Mutant of verifyOTPResult: the attemptCount >= 5 test is missing.
verifyOTPResult_NoAttemptLimit(d, providedOTP) ==
    LET i == PendingIndex(otpStore, d) IN
    IF d \notin deliverySecrets THEN VerifyResult(FALSE, "no_otp_generated", NoRemaining)
    ELSE IF i = 0 THEN VerifyResult(FALSE, "no_pending_otp", NoRemaining)
    ELSE IF otpStore[i].expiresAt < now THEN VerifyResult(FALSE, "otp_expired", NoRemaining)
    ELSE IF TotpVerify(providedOTP, now) THEN VerifyResult(TRUE, "none", NoRemaining)
    ELSE VerifyResult(FALSE, "invalid_otp",
                      MaxOtpAttempts - (otpStore[i].attemptCount + 1))

\* Mutant of verifyOTPResult: remainingAttempts is computed before the increment.
verifyOTPResult_RemainingBeforeIncrement(d, providedOTP) ==
    LET i == PendingIndex(otpStore, d) IN
    IF d \notin deliverySecrets THEN VerifyResult(FALSE, "no_otp_generated", NoRemaining)
    ELSE IF i = 0 THEN VerifyResult(FALSE, "no_pending_otp", NoRemaining)
    ELSE IF otpStore[i].expiresAt < now THEN VerifyResult(FALSE, "otp_expired", NoRemaining)
    ELSE IF otpStore[i].attemptCount >= MaxOtpAttempts
        THEN VerifyResult(FALSE, "max_attempts_exceeded", 0)
    ELSE IF TotpVerify(providedOTP, now) THEN VerifyResult(TRUE, "none", NoRemaining)
    ELSE VerifyResult(FALSE, "invalid_otp", MaxOtpAttempts - otpStore[i].attemptCount)

\* What verifyOTP(deliveryId, providedOTP) returns in the current state.
verifyOTPResult(d, providedOTP) ==
    LET i == PendingIndex(otpStore, d) IN
    IF d \notin deliverySecrets THEN VerifyResult(FALSE, "no_otp_generated", NoRemaining)
    ELSE IF i = 0 THEN VerifyResult(FALSE, "no_pending_otp", NoRemaining)
    ELSE IF otpStore[i].expiresAt < now THEN VerifyResult(FALSE, "otp_expired", NoRemaining)
    ELSE IF otpStore[i].attemptCount >= MaxOtpAttempts
        THEN VerifyResult(FALSE, "max_attempts_exceeded", 0)
    ELSE IF TotpVerify(providedOTP, now) THEN VerifyResult(TRUE, "none", NoRemaining)
    ELSE VerifyResult(FALSE, "invalid_otp",
                      MaxOtpAttempts - (otpStore[i].attemptCount + 1))

\* The reasons under which verifyOTP has reached the token comparison.
Compared(result) == result.reason \in {"none", "invalid_otp"}

----------------------------------------------------------------------------
(* History bookkeeping for verifyOTP calls *)

Untracked == -1

\* probe[d] = n >= 0: exactly n verifyOTP calls were made on d so far, each
\* with a secret present and a token that did not verify.
NextProbe(p, d, providedOTP) ==
    IF p = Untracked \/ d \notin deliverySecrets \/ TotpVerify(providedOTP, now)
       THEN Untracked
       ELSE p + 1

----------------------------------------------------------------------------
Init ==
    /\ now = 0
    /\ otpStore = <<>>
    /\ photoStore = <<>>
    /\ signatureStore = <<>>
    /\ verificationStore = [d \in Deliveries |-> NoVerification]
    /\ deliverySecrets = {}
    /\ attemptIncrements = [d \in Deliveries |-> 0]
    /\ probe = [d \in Deliveries |-> 0]
    /\ emergencyContacts = [dr \in Drivers |-> <<>>]
    /\ emergencyStore = <<>>
    /\ activeEmergencies = [dr \in Drivers |-> 0]
    /\ accelerometerHistory = [dr \in Drivers |-> <<>>]
    /\ lastPanic = [dr \in Drivers |-> 0]
    /\ connected = {}
    /\ clients = [s \in Sessions |-> NoClient]
    /\ socketRooms = [s \in Sessions |-> {}]
    /\ deliveryRooms = [d \in RoomDeliveries |-> {}]
    /\ offlineQueue = [u \in Users |-> <<>>]
    /\ eventCtr = 0
    /\ queuedLog = [u \in Users |-> <<>>]
    /\ drainedLog = [u \in Users |-> <<>>]
    /\ queuedSinceDrain = [u \in Users |-> <<>>]
    /\ inFlight = [s \in Sessions |-> <<>>]
    /\ notificationStore = <<>>
    /\ userPreferences = [u \in NotifyRecipients |-> NoPreferences]
    /\ rateLimitStore = [k \in RateKeys |-> NoRateLimit]
    /\ retryTimers = {}
    /\ notifyLog = <<>>
    /\ acceptedAt = [k \in RateKeys |-> <<>>]
    /\ alertStore = <<>>
    /\ deliveryAlerts = [d \in MonitorDeliveries |-> <<>>]
    /\ driverHistory = [dr \in Drivers |-> <<>>]
    /\ expectedRoutes = [d \in MonitorDeliveries |-> NoRoute]
    /\ movementLog = [dr \in Drivers |-> <<>>]
    /\ reqUser = NoUser
    /\ resStatus = 0
    /\ sealed = NotSealed
    /\ opened = NotOpened
    /\ issuedCodes = <<>>

\* Passage of time between two calls.
Tick ==
    /\ now' = now + ClockQuantum
    /\ UNCHANGED <<otpStore, photoStore, signatureStore, verificationStore,
                   deliverySecrets, attemptIncrements, probe>>
    /\ UNCHANGED <<emergencyVars, broadcastVars, notifierVars, monitorVars, httpVars, cryptoVars, codeVars, wireVars>>

initializeVerification(d, requiredMethods) ==
    /\ verificationStore' = [verificationStore EXCEPT ![d] =
           [exists |-> TRUE, methodsRequired |-> requiredMethods,
            methodsCompleted |-> <<>>, isComplete |-> FALSE]]
    /\ UNCHANGED <<now, otpStore, photoStore, signatureStore, deliverySecrets,
                   attemptIncrements, probe>>
    /\ UNCHANGED <<emergencyVars, broadcastVars, notifierVars, monitorVars, httpVars, cryptoVars, codeVars, wireVars>>

generateOTP(d, r) ==
    /\ deliverySecrets' = deliverySecrets \cup {d}
    /\ otpStore' = Append(otpStore,
           [deliveryId |-> d, recipientId |-> r, otp |-> TotpGenerate(now),
            expiresAt |-> now + otpTtlSeconds,
            attemptCount |-> 0, isVerified |-> FALSE])
    /\ UNCHANGED <<now, photoStore, signatureStore, verificationStore,
                   attemptIncrements, probe>>
    /\ UNCHANGED <<emergencyVars, broadcastVars, notifierVars, monitorVars, httpVars, cryptoVars, codeVars, wireVars>>

verifyOTP(d, providedOTP) ==
    LET i == PendingIndex(otpStore, d)
        result == verifyOTPResult(d, providedOTP)
    IN
    /\ probe' = [probe EXCEPT ![d] = NextProbe(probe[d], d, providedOTP)]
    /\ UNCHANGED <<now, photoStore, signatureStore, deliverySecrets>>
    /\ UNCHANGED <<emergencyVars, broadcastVars, notifierVars, monitorVars, httpVars, cryptoVars, codeVars, wireVars>>
    /\ IF ~Compared(result) THEN
           UNCHANGED <<otpStore, verificationStore, attemptIncrements>>
       ELSE
           /\ attemptIncrements' = [attemptIncrements EXCEPT ![d] = @ + 1]
           /\ IF result.isValid THEN
                  /\ otpStore' = [otpStore EXCEPT ![i].attemptCount = @ + 1,
                                                  ![i].isVerified = TRUE]
                  /\ verificationStore' = updateVerification(verificationStore, d, "otp")
              ELSE
                  /\ otpStore' = [otpStore EXCEPT ![i].attemptCount = @ + 1]
                  /\ UNCHANGED verificationStore

storeDeliveryPhoto(d) ==
    /\ photoStore' = Append(photoStore, [deliveryId |-> d])
    /\ verificationStore' = updateVerification(verificationStore, d, "photo")
    /\ UNCHANGED <<now, otpStore, signatureStore, deliverySecrets,
                   attemptIncrements, probe>>
    /\ UNCHANGED <<emergencyVars, broadcastVars, notifierVars, monitorVars, httpVars, cryptoVars, codeVars, wireVars>>

\* storeSignature: the record it stores; iv and nameIv are the two
\* randomBytes(12) draws of its encrypt calls.
signatureRecord(d, signatureData, signerName, iv, nameIv) ==
    [deliveryId |-> d,
     signatureEncrypted |-> encrypt(signatureData, d, iv),
     signatureHash |-> sha256(signatureData),
     signerName |-> IF signerName # NoSignerName
                       THEN encrypt(signerName, d, nameIv) ELSE NoCiphertext]

\* verifySignatureIntegrity(signatureId, deliveryId)
verifySignatureIntegrity(signatureId, d) ==
    IF signatureId \notin DOMAIN signatureStore
          \/ signatureStore[signatureId].deliveryId # d
       THEN FALSE
       ELSE LET decrypted == decrypt(signatureStore[signatureId].signatureEncrypted, d)
            IN  /\ decrypted.error = "none"
                /\ sha256(decrypted.value) = signatureStore[signatureId].signatureHash

storeSignature(d, signatureData, signerName, iv, nameIv) ==
    /\ signatureStore' =
           Append(signatureStore, signatureRecord(d, signatureData, signerName, iv, nameIv))
    /\ verificationStore' = updateVerification(verificationStore, d, "signature")
    /\ UNCHANGED <<now, otpStore, photoStore, deliverySecrets,
                   attemptIncrements, probe>>
    /\ UNCHANGED <<emergencyVars, broadcastVars, notifierVars, monitorVars, httpVars, cryptoVars, codeVars, wireVars>>

verifyGeofence(d, distance, radiusMeters) ==
    LET isWithinGeofence == distance <= radiusMeters IN
    /\ verificationStore' =
           IF isWithinGeofence
              THEN updateVerification(verificationStore, d, "geofence")
              ELSE verificationStore
    /\ UNCHANGED <<now, otpStore, photoStore, signatureStore, deliverySecrets,
                   attemptIncrements, probe>>
    /\ UNCHANGED <<emergencyVars, broadcastVars, notifierVars, monitorVars, httpVars, cryptoVars, codeVars, wireVars>>

\* What createFallbackVerification(deliveryId, fallbackCode) returns.
fallbackIsValid(d, fallbackCode) ==
    ToUpperCase(fallbackCode) = ExpectedFallbackCode(d)

createFallbackVerification(d, fallbackCode) ==
    LET v == verificationStore[d] IN
    /\ verificationStore' =
           IF fallbackIsValid(d, fallbackCode) /\ v.exists
              THEN [verificationStore EXCEPT ![d] =
                       [v EXCEPT !.isComplete = TRUE, !.methodsCompleted = <<"code">>]]
              ELSE verificationStore
    /\ UNCHANGED <<now, otpStore, photoStore, signatureStore, deliverySecrets,
                   attemptIncrements, probe>>
    /\ UNCHANGED <<emergencyVars, broadcastVars, notifierVars, monitorVars, httpVars, cryptoVars, codeVars, wireVars>>

Next ==
    \/ \E d \in Driven, req \in RequiredChoices : initializeVerification(d, req)
    \/ \E d \in Deliveries, r \in Recipients :
           Len(otpStore) < MaxOtpRecords /\ generateOTP(d, r)
    \/ \E d \in Driven, t \in Tokens :
           probe[d] < MaxVerifyCalls /\ verifyOTP(d, t)
    \/ \E d \in Driven : Len(photoStore) < MaxPhotos /\ storeDeliveryPhoto(d)
    \/ \E d \in Driven, data \in SampleSignatures :
           /\ Len(signatureStore) < MaxSignatures
           /\ storeSignature(d, data, NoSignerName, "iv1", "iv1")
    \/ \E d \in Driven, dist \in Distances :
           verifyGeofence(d, dist, DEFAULT_GEOFENCE_RADIUS)
    \/ \E d \in Driven, c \in FallbackCodes : createFallbackVerification(d, c)

Spec == Init /\ [][Next]_vars

\* The OTP sub-machine on its own (the only operations that touch otpStore
\* and deliverySecrets), with room for several records and for expiry.
NextOtp ==
    \/ now < MaxOtpTicks * ClockQuantum /\ Tick
    \/ \E d \in Driven : initializeVerification(d, <<"otp">>)
    \/ \E d \in Deliveries, r \in Recipients :
           Len(otpStore) < MaxOtpGenerated /\ generateOTP(d, r)
    \/ \E d \in Driven, t \in Tokens :
           probe[d] < MaxOtpVerifyCalls /\ verifyOTP(d, t)

SpecOtp == Init /\ [][NextOtp]_vars

\* Signature capture on its own, over every signature string and signer name.
NextSignature ==
    \/ \E d \in Driven : initializeVerification(d, <<"signature">>)
    \/ \E d \in Driven, data \in Plaintexts, name \in SignerNames,
          iv \in IVs, nameIv \in IVs :
           /\ Len(signatureStore) < MaxSignatures
           /\ storeSignature(d, data, name, iv, nameIv)

SpecSignature == Init /\ [][NextSignature]_vars

----------------------------------------------------------------------------
(* Emergency orchestrator *)

\* Math.sqrt(x ** 2 + y ** 2 + z ** 2) >= THRESHOLDS.impactGForce
ImpactDetected(reading) ==
    reading.x * reading.x + reading.y * reading.y + reading.z * reading.z
        >= impactGForce * impactGForce

\* createEmergencyRecord: the record it stores (its id is its position).
createEmergencyRecord(dr, emergencyType, location, deliveryId) ==
    [driverId |-> dr, deliveryId |-> deliveryId, emergencyType |-> emergencyType,
     location |-> location, status |-> "triggered"]

\* initiateEmergencyResponse: runs to its end before the caller's await yields.
initiateEmergencyResponse(emergency) == [emergency EXCEPT !.status = "responding"]

\* The id triggerPanicButton returns: the active record when it is still
\* 'triggered', a new record otherwise.
triggerPanicButtonResult(dr) ==
    LET existingId == activeEmergencies[dr] IN
    IF existingId # 0 /\ emergencyStore[existingId].status = "triggered"
       THEN existingId
       ELSE Len(emergencyStore) + 1

triggerPanicButton(dr, location, deliveryId) ==
    LET id == triggerPanicButtonResult(dr) IN
    /\ IF id <= Len(emergencyStore)
          THEN UNCHANGED <<emergencyStore, activeEmergencies>>
          ELSE /\ emergencyStore' = Append(emergencyStore,
                      initiateEmergencyResponse(
                          createEmergencyRecord(dr, "panic_button", location, deliveryId)))
               /\ activeEmergencies' = [activeEmergencies EXCEPT ![dr] = id]
    /\ lastPanic' = [lastPanic EXCEPT ![dr] = id]
    /\ UNCHANGED <<emergencyContacts, accelerometerHistory>>
    /\ UNCHANGED <<verifierVars, broadcastVars, notifierVars, monitorVars, httpVars, cryptoVars, codeVars, wireVars>>

processAccelerometerData(dr, reading, location, deliveryId) ==
    LET pushed == Append(accelerometerHistory[dr], reading)
        history == IF Len(pushed) > MaxAccelerometerHistory THEN Tail(pushed) ELSE pushed
    IN
    /\ accelerometerHistory' = [accelerometerHistory EXCEPT ![dr] = history]
    /\ IF ImpactDetected(reading) /\ activeEmergencies[dr] = 0
          THEN /\ emergencyStore' = Append(emergencyStore,
                      initiateEmergencyResponse(
                          createEmergencyRecord(dr, "accident_detected", location, deliveryId)))
               /\ activeEmergencies' =
                      [activeEmergencies EXCEPT ![dr] = Len(emergencyStore) + 1]
          ELSE UNCHANGED <<emergencyStore, activeEmergencies>>
    /\ UNCHANGED <<emergencyContacts, lastPanic>>
    /\ UNCHANGED <<verifierVars, broadcastVars, notifierVars, monitorVars, httpVars, cryptoVars, codeVars, wireVars>>

acknowledgeEmergency(emergencyId) ==
    /\ emergencyStore' =
           IF emergencyId \in 1 .. Len(emergencyStore)
              THEN [emergencyStore EXCEPT ![emergencyId].status = "acknowledged"]
              ELSE emergencyStore
    /\ UNCHANGED <<emergencyContacts, activeEmergencies, accelerometerHistory, lastPanic>>
    /\ UNCHANGED <<verifierVars, broadcastVars, notifierVars, monitorVars, httpVars, cryptoVars, codeVars, wireVars>>

resolveEmergency(emergencyId) ==
    /\ IF emergencyId \in 1 .. Len(emergencyStore)
          THEN LET dr == emergencyStore[emergencyId].driverId IN
               /\ emergencyStore' = [emergencyStore EXCEPT ![emergencyId].status = "resolved"]
               /\ activeEmergencies' = [activeEmergencies EXCEPT ![dr] = 0]
               /\ lastPanic' = [lastPanic EXCEPT ![dr] = 0]
          ELSE UNCHANGED <<emergencyStore, activeEmergencies, lastPanic>>
    /\ UNCHANGED <<emergencyContacts, accelerometerHistory>>
    /\ UNCHANGED <<verifierVars, broadcastVars, notifierVars, monitorVars, httpVars, cryptoVars, codeVars, wireVars>>

setEmergencyContacts(dr, contacts) ==
    /\ emergencyContacts' = [emergencyContacts EXCEPT ![dr] = contacts]
    /\ UNCHANGED <<emergencyStore, activeEmergencies, accelerometerHistory, lastPanic>>
    /\ UNCHANGED <<verifierVars, broadcastVars, notifierVars, monitorVars, httpVars, cryptoVars, codeVars, wireVars>>

NextEmergency ==
    \/ \E dr \in Drivers, loc \in Locations, del \in OptDeliveries :
           Len(emergencyStore) < MaxEmergencies /\ triggerPanicButton(dr, loc, del)
    \/ \E dr \in Drivers, reading \in Readings, loc \in Locations, del \in OptDeliveries :
           /\ Len(emergencyStore) < MaxEmergencies
           /\ Len(accelerometerHistory[dr]) < MaxReadings
           /\ processAccelerometerData(dr, reading, loc, del)
    \/ \E id \in 1 .. MaxEmergencies + 1 : acknowledgeEmergency(id)
    \/ \E id \in 1 .. MaxEmergencies + 1 : resolveEmergency(id)
    \/ \E dr \in Drivers, contacts \in ContactLists : setEmergencyContacts(dr, contacts)

SpecEmergency == Init /\ [][NextEmergency]_vars

----------------------------------------------------------------------------
(* Real-time broadcaster (broadcaster.ts), between initializeWebSocket and   *)
(* closeWebSocket: io is set, and every socket has its handlers registered. *)

\* Mutant of isOnline: any open socket counts, whoever authenticated on it.
isOnline_AnyOpenSocket(userId) == connected # {}

\* Array.from(clients.values()).some(c => c.userId === userId)
isOnline(userId) ==
    \E s \in Sessions : clients[s] # NoClient /\ clients[s].userId = userId

\* Mutant of enqueueOffline: the queue.shift() of a full queue is missing.
enqueueOffline_NoShift(queue, event) == Append(queue, event)

\* queue.push(event); if (queue.length > 50) queue.shift()
enqueueOffline(queue, event) ==
    LET pushed == Append(queue, event)
    IN  IF Len(pushed) > OfflineQueueLimit THEN Tail(pushed) ELSE pushed

\* audience.userIds.forEach(...): the queues after the event was queued for
\* every listed user that is not online.
RECURSIVE queueForOffline(_, _, _)
queueForOffline(queues, userIds, event) ==
    IF userIds = <<>> THEN queues
    ELSE LET userId == Head(userIds)
             after == IF isOnline(userId) THEN queues
                      ELSE [queues EXCEPT ![userId] = enqueueOffline(@, event)]
         IN  queueForOffline(after, Tail(userIds), event)

\* The same walk for the histories: every push is recorded, nothing dropped.
RECURSIVE logForOffline(_, _, _)
logForOffline(logs, userIds, event) ==
    IF userIds = <<>> THEN logs
    ELSE LET userId == Head(userIds)
             after == IF isOnline(userId) THEN logs
                      ELSE [logs EXCEPT ![userId] = Append(@, event)]
         IN  logForOffline(after, Tail(userIds), event)

\* How many times broadcast(event) emits 'event' to socket s: once through
\* the delivery room, once through the userIds loop, once through the roles
\* loop.
broadcastEmits(s, audience) ==
    (IF audience.deliveryId # NoDelivery /\ audience.deliveryId \in socketRooms[s]
        THEN 1 ELSE 0)
    + (IF clients[s] # NoClient /\ clients[s].userId \in Range(audience.userIds)
        THEN 1 ELSE 0)
    + (IF clients[s] # NoClient /\ clients[s].role \in Range(audience.roles)
        THEN 1 ELSE 0)

\* io.on('connection'): a socket opens.
connection(s) ==
    /\ s \notin connected
    /\ connected' = connected \cup {s}
    /\ UNCHANGED <<clients, socketRooms, deliveryRooms, offlineQueue, eventCtr,
                   queuedLog, drainedLog, queuedSinceDrain>>
    /\ UNCHANGED <<verifierVars, emergencyVars, notifierVars, monitorVars, httpVars, cryptoVars, codeVars, wireVars>>

\* Mutant of authenticate: offlineQueue.delete(data.userId) is missing.
authenticate_KeepingQueue(s, userId, role) ==
    /\ s \in connected
    /\ clients' = [clients EXCEPT ![s] = [userId |-> userId, role |-> role]]
    /\ drainedLog' = [drainedLog EXCEPT ![userId] = @ \o offlineQueue[userId]]
    /\ UNCHANGED <<connected, socketRooms, deliveryRooms, offlineQueue, eventCtr,
                   queuedLog, queuedSinceDrain>>
    /\ UNCHANGED <<verifierVars, emergencyVars, notifierVars, monitorVars, httpVars, cryptoVars, codeVars, wireVars>>

\* socket.on('authenticate'): registers the client, emits the user's queued
\* events in queue order, deletes the queue.
authenticate(s, userId, role) ==
    /\ s \in connected
    /\ clients' = [clients EXCEPT ![s] = [userId |-> userId, role |-> role]]
    /\ drainedLog' = [drainedLog EXCEPT ![userId] = @ \o offlineQueue[userId]]
    /\ offlineQueue' = [offlineQueue EXCEPT ![userId] = <<>>]
    /\ queuedSinceDrain' =
           IF offlineQueue[userId] # <<>>
              THEN [queuedSinceDrain EXCEPT ![userId] = <<>>]
              ELSE queuedSinceDrain
    /\ UNCHANGED <<connected, socketRooms, deliveryRooms, eventCtr, queuedLog>>
    /\ UNCHANGED <<verifierVars, emergencyVars, notifierVars, monitorVars, httpVars, cryptoVars, codeVars, wireVars>>

\* socket.on('subscribe:delivery')
subscribeDelivery(s, deliveryId) ==
    /\ s \in connected
    /\ socketRooms' = [socketRooms EXCEPT ![s] = @ \cup {deliveryId}]
    /\ deliveryRooms' = [deliveryRooms EXCEPT ![deliveryId] = @ \cup {s}]
    /\ UNCHANGED <<connected, clients, offlineQueue, eventCtr,
                   queuedLog, drainedLog, queuedSinceDrain>>
    /\ UNCHANGED <<verifierVars, emergencyVars, notifierVars, monitorVars, httpVars, cryptoVars, codeVars, wireVars>>

\* socket.on('unsubscribe:delivery')
unsubscribeDelivery(s, deliveryId) ==
    /\ s \in connected
    /\ socketRooms' = [socketRooms EXCEPT ![s] = @ \ {deliveryId}]
    /\ deliveryRooms' = [deliveryRooms EXCEPT ![deliveryId] = @ \ {s}]
    /\ UNCHANGED <<connected, clients, offlineQueue, eventCtr,
                   queuedLog, drainedLog, queuedSinceDrain>>
    /\ UNCHANGED <<verifierVars, emergencyVars, notifierVars, monitorVars, httpVars, cryptoVars, codeVars, wireVars>>

\* socket.on('disconnect'); socket.io takes a closed socket out of its rooms.
disconnect(s) ==
    /\ s \in connected
    /\ connected' = connected \ {s}
    /\ clients' = [clients EXCEPT ![s] = NoClient]
    /\ deliveryRooms' = [d \in RoomDeliveries |-> deliveryRooms[d] \ {s}]
    /\ socketRooms' = [socketRooms EXCEPT ![s] = {}]
    /\ UNCHANGED <<offlineQueue, eventCtr, queuedLog, drainedLog, queuedSinceDrain>>
    /\ UNCHANGED <<verifierVars, emergencyVars, notifierVars, monitorVars, httpVars, cryptoVars, codeVars, wireVars>>

\* broadcast(event): the event is named by the number of the call.
broadcast(audience) ==
    LET event == eventCtr + 1 IN
    /\ eventCtr' = event
    /\ offlineQueue' = queueForOffline(offlineQueue, audience.userIds, event)
    /\ queuedLog' = logForOffline(queuedLog, audience.userIds, event)
    /\ queuedSinceDrain' = logForOffline(queuedSinceDrain, audience.userIds, event)
    /\ UNCHANGED <<connected, clients, socketRooms, deliveryRooms, drainedLog>>
    /\ UNCHANGED <<verifierVars, emergencyVars, notifierVars, monitorVars, httpVars, cryptoVars, codeVars, wireVars>>

NextBroadcast ==
    \/ \E s \in Sessions : connection(s)
    \/ \E s \in Sessions, userId \in Users, role \in ClientRoles :
           authenticate(s, userId, role)
    \/ \E s \in Sessions, d \in RoomDeliveries : subscribeDelivery(s, d)
    \/ \E s \in Sessions, d \in RoomDeliveries : unsubscribeDelivery(s, d)
    \/ \E s \in Sessions : disconnect(s)
    \/ \E audience \in Audiences : eventCtr < MaxEvents /\ broadcast(audience)

SpecBroadcast == Init /\ [][NextBroadcast]_vars

\* One user going online once while events addressed to that user arrive.
NextQueue ==
    \/ \E s \in QueueSessions : connection(s)
    \/ \E s \in QueueSessions, userId \in QueueUsers : authenticate(s, userId, "customer")
    \/ \E audience \in QueueAudiences :
           eventCtr < MaxQueuedEvents /\ broadcast(audience)

SpecQueue == Init /\ [][NextQueue]_vars

\* ---------------------------------------------------------------------------
\* The handlers together with the transport: socket.emit hands a packet to the
\* socket, the packet reaches the client later, and a socket that closes
\* discards what it has not sent. The specifications above observe only the
\* broadcaster's maps and leave the transport out.
\* ---------------------------------------------------------------------------

\* The packets one broadcast(event) hands to socket s.
emitted(s, audience, event) == [i \in 1 .. broadcastEmits(s, audience) |-> event]

\* broadcast(event), with the emits.
broadcastBuffered(audience) ==
    LET event == eventCtr + 1 IN
    /\ eventCtr' = event
    /\ inFlight' = [s \in Sessions |->
                       IF s \in connected THEN inFlight[s] \o emitted(s, audience, event)
                       ELSE inFlight[s]]
    /\ offlineQueue' = queueForOffline(offlineQueue, audience.userIds, event)
    /\ queuedLog' = logForOffline(queuedLog, audience.userIds, event)
    /\ queuedSinceDrain' = logForOffline(queuedSinceDrain, audience.userIds, event)
    /\ UNCHANGED <<connected, clients, socketRooms, deliveryRooms, drainedLog>>
    /\ UNCHANGED <<verifierVars, emergencyVars, notifierVars, monitorVars, httpVars, cryptoVars, codeVars>>

\* socket.on('authenticate'), with the emits of the queued events.
authenticateBuffered(s, userId, role) ==
    /\ s \in connected
    /\ clients' = [clients EXCEPT ![s] = [userId |-> userId, role |-> role]]
    /\ inFlight' = [inFlight EXCEPT ![s] = @ \o offlineQueue[userId]]
    /\ drainedLog' = [drainedLog EXCEPT ![userId] = @ \o offlineQueue[userId]]
    /\ offlineQueue' = [offlineQueue EXCEPT ![userId] = <<>>]
    /\ queuedSinceDrain' =
           IF offlineQueue[userId] # <<>>
              THEN [queuedSinceDrain EXCEPT ![userId] = <<>>]
              ELSE queuedSinceDrain
    /\ UNCHANGED <<connected, socketRooms, deliveryRooms, eventCtr, queuedLog>>
    /\ UNCHANGED <<verifierVars, emergencyVars, notifierVars, monitorVars, httpVars, cryptoVars, codeVars>>

\* The oldest packet of a socket reaches its client.
transmit(s) ==
    /\ s \in connected
    /\ inFlight[s] # <<>>
    /\ inFlight' = [inFlight EXCEPT ![s] = Tail(@)]
    /\ UNCHANGED <<verifierVars, emergencyVars, broadcastVars, notifierVars, monitorVars,
                   httpVars, cryptoVars, codeVars>>

\* The socket closes and socket.on('disconnect') runs: the unsent packets are
\* discarded, the handler touches only clients and deliveryRooms.
disconnectBuffered(s) ==
    /\ s \in connected
    /\ connected' = connected \ {s}
    /\ clients' = [clients EXCEPT ![s] = NoClient]
    /\ deliveryRooms' = [d \in RoomDeliveries |-> deliveryRooms[d] \ {s}]
    /\ socketRooms' = [socketRooms EXCEPT ![s] = {}]
    /\ inFlight' = [inFlight EXCEPT ![s] = <<>>]
    /\ UNCHANGED <<offlineQueue, eventCtr, queuedLog, drainedLog, queuedSinceDrain>>
    /\ UNCHANGED <<verifierVars, emergencyVars, notifierVars, monitorVars, httpVars, cryptoVars, codeVars>>

\* One user with one session, events addressed to that user.
NextClosure ==
    \/ \E s \in QueueSessions : connection(s)
    \/ \E s \in QueueSessions, userId \in QueueUsers : authenticateBuffered(s, userId, "customer")
    \/ \E audience \in QueueAudiences :
           eventCtr < MaxClosureEvents /\ broadcastBuffered(audience)
    \/ \E s \in QueueSessions : transmit(s)
    \/ \E s \in QueueSessions : disconnectBuffered(s)

SpecClosure == Init /\ [][NextClosure]_vars

----------------------------------------------------------------------------
(* Notification service (notifier.ts). The transport adapters stand for     *)
(* external services: whether a call to one throws is the environment's     *)
(* choice (adapterOk).                                                      *)

\* Mutant of scheduleRetry: the bound test is retryCount > maxRetries.
scheduleRetry_OffByOne(notification) ==
    IF notification.retryCount > notification.maxRetries
       THEN [notification EXCEPT !.status = "failed",
                                 !.failureReason = "Max retries exceeded"]
       ELSE [notification EXCEPT !.retryCount = @ + 1]

\* scheduleRetry(notification): the record it leaves; a timer is set exactly
\* when retryCount was incremented.
scheduleRetry(notification) ==
    IF notification.retryCount >= notification.maxRetries
       THEN [notification EXCEPT !.status = "failed",
                                 !.failureReason = "Max retries exceeded"]
       ELSE [notification EXCEPT !.retryCount = @ + 1]

\* The delay scheduleRetry passes to setTimeout.
retryDelay(notification) ==
    IF notification.retryCount + 1 \in DOMAIN RETRY_DELAYS
       THEN RETRY_DELAYS[notification.retryCount + 1]
       ELSE DefaultRetryDelay

\* deliverNotification(notification): the record it leaves.
deliverNotification(notification, adapterOk) ==
    IF adapterOk THEN [notification EXCEPT !.status = "sent"]
                 ELSE scheduleRetry(notification)

\* The history of one delivery attempt on a notification.
logAttempt(log, notification, adapterOk) ==
    LET after == deliverNotification(notification, adapterOk) IN
    [delays    |-> IF after.retryCount # notification.retryCount
                      THEN Append(log.delays, retryDelay(notification))
                      ELSE log.delays,
     attempts  |-> log.attempts + 1,
     succeeded |-> log.succeeded \/ adapterOk]

\* Mutant of rateLimited: the window is never looked at.
rateLimited_IgnoringWindow(rateLimit) ==
    rateLimit # NoRateLimit /\ rateLimit.count >= RateLimitMax

\* sendNotification: rateLimit && rateLimit.resetAt > new Date() && rateLimit.count >= 10
rateLimited(rateLimit) ==
    /\ rateLimit # NoRateLimit
    /\ rateLimit.resetAt > now
    /\ rateLimit.count >= RateLimitMax

\* sendNotification: a limited call throws and changes nothing; any other
\* call stores the record, counts it and makes the first delivery attempt.
sendNotification(recipientId, channel, priority, adapterOk) ==
    LET key == <<recipientId, channel>>
        rateLimit == rateLimitStore[key]
        notification == [recipientId |-> recipientId, channel |-> channel,
                         priority |-> priority, status |-> "pending",
                         retryCount |-> 0, maxRetries |-> Len(RETRY_DELAYS),
                         failureReason |-> "none"]
        after == deliverNotification(notification, adapterOk)
        id == Len(notificationStore) + 1
    IN
    /\ IF rateLimited(rateLimit)
          THEN UNCHANGED notifierVars
          ELSE /\ notificationStore' = Append(notificationStore, after)
               /\ rateLimitStore' =
                      [rateLimitStore EXCEPT ![key] =
                          IF rateLimit # NoRateLimit
                             THEN [rateLimit EXCEPT !.count = @ + 1]
                             ELSE [count |-> 1, resetAt |-> now + RateWindowSeconds]]
               /\ retryTimers' =
                      IF after.retryCount # 0 THEN retryTimers \cup {id} ELSE retryTimers
               /\ notifyLog' =
                      Append(notifyLog,
                             logAttempt([delays |-> <<>>, attempts |-> 0, succeeded |-> FALSE],
                                        notification, adapterOk))
               /\ acceptedAt' = [acceptedAt EXCEPT ![key] = Append(@, now)]
               /\ UNCHANGED userPreferences
    /\ UNCHANGED <<verifierVars, emergencyVars, broadcastVars, monitorVars, httpVars, cryptoVars, codeVars, wireVars>>

\* The setTimeout callback of scheduleRetry: one more delivery attempt.
retryTimerFires(id, adapterOk) ==
    /\ id \in retryTimers
    /\ LET notification == notificationStore[id]
           after == deliverNotification(notification, adapterOk)
       IN  /\ notificationStore' = [notificationStore EXCEPT ![id] = after]
           /\ retryTimers' =
                  IF after.retryCount # notification.retryCount
                     THEN retryTimers ELSE retryTimers \ {id}
           /\ notifyLog' =
                  [notifyLog EXCEPT ![id] = logAttempt(@, notification, adapterOk)]
    /\ UNCHANGED <<userPreferences, rateLimitStore, acceptedAt>>
    /\ UNCHANGED <<verifierVars, emergencyVars, broadcastVars, monitorVars, httpVars, cryptoVars, codeVars, wireVars>>

markAsDelivered(id) ==
    /\ notificationStore' =
           IF id \in DOMAIN notificationStore
              THEN [notificationStore EXCEPT ![id].status = "delivered"]
              ELSE notificationStore
    /\ UNCHANGED <<userPreferences, rateLimitStore, retryTimers, notifyLog, acceptedAt>>
    /\ UNCHANGED <<verifierVars, emergencyVars, broadcastVars, monitorVars, httpVars, cryptoVars, codeVars, wireVars>>

markAsRead(id) ==
    /\ notificationStore' =
           IF id \in DOMAIN notificationStore
              THEN [notificationStore EXCEPT ![id].status = "read"]
              ELSE notificationStore
    /\ UNCHANGED <<userPreferences, rateLimitStore, retryTimers, notifyLog, acceptedAt>>
    /\ UNCHANGED <<verifierVars, emergencyVars, broadcastVars, monitorVars, httpVars, cryptoVars, codeVars, wireVars>>

setUserPreferences(userId, channels) ==
    /\ userPreferences' = [userPreferences EXCEPT ![userId] = channels]
    /\ UNCHANGED <<notificationStore, rateLimitStore, retryTimers, notifyLog, acceptedAt>>
    /\ UNCHANGED <<verifierVars, emergencyVars, broadcastVars, monitorVars, httpVars, cryptoVars, codeVars, wireVars>>

\* getUserPreferences(userId).channels
getUserPreferences(userId) ==
    IF userPreferences[userId] = NoPreferences
       THEN <<"sms", "push">> ELSE userPreferences[userId]

NextNotify ==
    \/ \E r \in NotifyRecipients, ch \in Channels, prio \in Priorities, ok \in BOOLEAN :
           Len(notificationStore) < MaxNotifications /\ sendNotification(r, ch, prio, ok)
    \/ \E id \in 1 .. MaxNotifications, ok \in BOOLEAN : retryTimerFires(id, ok)
    \/ \E id \in 1 .. MaxNotifications + 1 : markAsDelivered(id)
    \/ \E id \in 1 .. MaxNotifications + 1 : markAsRead(id)
    \/ \E u \in NotifyRecipients, chs \in ChannelLists : setUserPreferences(u, chs)

\* setTimeout callbacks run: a pending retry timer eventually fires.
SpecNotify ==
    /\ Init
    /\ [][NextNotify]_vars
    /\ \A id \in 1 .. MaxNotifications + 1 :
           WF_vars(\E ok \in BOOLEAN : retryTimerFires(id, ok))

\* The clock runs from one rate-limit window into the next.
WindowPasses ==
    /\ now' = now + RateWindowSeconds
    /\ UNCHANGED <<otpStore, photoStore, signatureStore, verificationStore,
                   deliverySecrets, attemptIncrements, probe>>
    /\ UNCHANGED <<emergencyVars, broadcastVars, notifierVars, monitorVars, httpVars, cryptoVars, codeVars, wireVars>>

\* One recipient and channel under a burst of sends that the adapter accepts.
NextRate ==
    \/ now < MaxRateWindows * RateWindowSeconds /\ WindowPasses
    \/ /\ Len(acceptedAt[<<"u1", "sms">>]) < MaxRateSends
       /\ sendNotification("u1", "sms", "normal", TRUE)

SpecRate == Init /\ [][NextRate]_vars

----------------------------------------------------------------------------
(* Cargo security monitor (monitor.ts): communication loss and the alert     *)
(* lifecycle.                                                                *)

\* getAlertsForDelivery(deliveryId)
getAlertsForDelivery(d) ==
    [i \in 1 .. Len(deliveryAlerts[d]) |-> alertStore[deliveryAlerts[d][i]]]

\* Mutant of hasRecentCommAlert: an alert of any age suppresses the next one.
hasRecentCommAlert_AnyAge(d) ==
    \E a \in Range(getAlertsForDelivery(d)) : a.anomalyType = "communication_lost"

\* checkCommunicationLoss: hasRecentCommAlert
hasRecentCommAlert(d) ==
    \E a \in Range(getAlertsForDelivery(d)) :
        /\ a.anomalyType = "communication_lost"
        /\ a.detectedAt > now - recentCommAlertMinutes * 60

\* checkCommunicationLoss: whether the call creates an alert.
commLossAlerts(d, silent) ==
    /\ silent >= communicationLossMinutes * 60
    /\ ~hasRecentCommAlert(d)

\* createAlert(...)
createAlert(d, driverId, anomalyType, severity) ==
    [deliveryId |-> d, driverId |-> driverId, anomalyType |-> anomalyType,
     severity |-> severity, detectedAt |-> now, isAcknowledged |-> FALSE,
     acknowledgedBy |-> NoOne, resolution |-> NoResolution]

\* checkCommunicationLoss: what the call returns, with lastSeenAt = now - silent.
NoAlert == [anomalyType |-> "none"]
checkCommunicationLossResult(d, driverId, silent) ==
    IF commLossAlerts(d, silent)
       THEN createAlert(d, driverId, "communication_lost",
                        IF silent > highSilentMinutes * 60 THEN "high" ELSE "medium")
       ELSE NoAlert

\* checkCommunicationLoss(deliveryId, driverId, lastSeenAt), with
\* lastSeenAt = now - silent.
checkCommunicationLoss(d, driverId, silent) ==
    /\ IF checkCommunicationLossResult(d, driverId, silent) # NoAlert
          THEN /\ alertStore' =
                      Append(alertStore, checkCommunicationLossResult(d, driverId, silent))
               /\ deliveryAlerts' =
                      [deliveryAlerts EXCEPT ![d] = Append(@, Len(alertStore) + 1)]
               /\ UNCHANGED <<driverHistory, expectedRoutes, movementLog>>
          ELSE UNCHANGED monitorVars
    /\ UNCHANGED <<verifierVars, emergencyVars, broadcastVars, notifierVars, httpVars, cryptoVars, codeVars, wireVars>>

\* acknowledgeAlert(alertId, acknowledgedBy): what it returns.
acknowledgeAlertResult(alertId) == alertId \in DOMAIN alertStore

\* acknowledgeAlert: the alertStore the call leaves.
acknowledgedStore(alertId, by) ==
    IF acknowledgeAlertResult(alertId)
       THEN [alertStore EXCEPT ![alertId].isAcknowledged = TRUE,
                               ![alertId].acknowledgedBy = by]
       ELSE alertStore

acknowledgeAlert(alertId, by) ==
    /\ alertStore' = acknowledgedStore(alertId, by)
    /\ UNCHANGED <<deliveryAlerts, driverHistory, expectedRoutes, movementLog>>
    /\ UNCHANGED <<verifierVars, emergencyVars, broadcastVars, notifierVars, httpVars, cryptoVars, codeVars, wireVars>>

\* resolveAlert(alertId, resolvedBy, status): what it returns.
resolveAlertResult(alertId) == alertId \in DOMAIN alertStore

\* resolveAlert: the alertStore the call leaves.
resolvedStore(alertId, by, status) ==
    IF resolveAlertResult(alertId)
       THEN [alertStore EXCEPT ![alertId].resolution =
                [status |-> status, resolvedBy |-> by]]
       ELSE alertStore

\* resolveAlert(alertId, resolvedBy, status)
resolveAlert(alertId, by, status) ==
    /\ alertStore' = resolvedStore(alertId, by, status)
    /\ UNCHANGED <<deliveryAlerts, driverHistory, expectedRoutes, movementLog>>
    /\ UNCHANGED <<verifierVars, emergencyVars, broadcastVars, notifierVars, httpVars, cryptoVars, codeVars, wireVars>>

\* POST /alerts/:alertId/acknowledge and /resolve, for an authenticated user:
\* the status answered for the service's return value.
alertRouteStatus(found) == IF found THEN 200 ELSE 404

\* history.slice(-n)
LastEntries(history, n) ==
    IF Len(history) <= n THEN history ELSE SubSeq(history, Len(history) - n + 1, Len(history))

\* checkRouteDeviation: whether it returns an alert.
routeDeviates(d, zoneId) ==
    /\ expectedRoutes[d] # NoRoute
    /\ zoneId \notin Range(expectedRoutes[d])

\* history.filter(e => !e.isMoving), in order
NotMoving(e) == ~e.isMoving
StationaryEntries(entries) == SelectSeq(entries, NotMoving)

\* checkUnusualStop: hasRecentStopAlert
hasRecentStopAlert(d) ==
    \E a \in Range(getAlertsForDelivery(d)) :
        /\ a.anomalyType = "unusual_stop"
        /\ a.detectedAt > now - recentStopAlertMinutes * 60

\* checkUnusualStop: whether it returns an alert.
unusualStop(d, history) ==
    LET stationary == StationaryEntries(LastEntries(history, stopRecentEntries)) IN
    /\ Len(history) >= stopMinEntries
    /\ Len(stationary) >= stopMinEntries
    /\ stationary[Len(stationary)].timestamp - stationary[1].timestamp
           >= unusualStopMinutes * 60
    /\ ~hasRecentStopAlert(d)

\* Mutant of rapidZoneChangesDetected: the zones of the whole history are counted.
rapidZoneChangesDetected_WholeHistory(history) ==
    LET recent == LastEntries(history, rapidZoneChanges) IN
    /\ Len(history) >= rapidZoneChanges
    /\ recent[Len(recent)].timestamp - recent[1].timestamp <= rapidWindowMinutes * 60
    /\ Cardinality({history[i].zoneId : i \in DOMAIN history}) >= rapidZoneChanges

\* checkRapidZoneChanges: whether it returns an alert.
rapidZoneChangesDetected(history) ==
    LET recent == LastEntries(history, rapidZoneChanges) IN
    /\ Len(history) >= rapidZoneChanges
    /\ recent[Len(recent)].timestamp - recent[1].timestamp <= rapidWindowMinutes * 60
    /\ Cardinality({recent[i].zoneId : i \in DOMAIN recent}) >= rapidZoneChanges

\* processLocationUpdate: the alerts it returns, in order.
locationAlerts(d, driverId, zoneId, history) ==
    (IF routeDeviates(d, zoneId)
        THEN <<createAlert(d, driverId, "route_deviation", "medium")>> ELSE <<>>)
    \o (IF unusualStop(d, history)
           THEN <<createAlert(d, driverId, "unusual_stop", "low")>> ELSE <<>>)
    \o (IF rapidZoneChangesDetected(history)
           THEN <<createAlert(d, driverId, "tampering_detected", "high")>> ELSE <<>>)

\* Mutant of pushHistory: at the limit the new entry is dropped, not the oldest.
pushHistory_DropNewest(history, entry) ==
    IF Len(history) + 1 > HistoryLimit THEN history ELSE Append(history, entry)

\* processLocationUpdate: history.push(entry), then history.shift() past 100 entries.
pushHistory(history, entry) ==
    IF Len(history) + 1 > HistoryLimit THEN Tail(Append(history, entry))
    ELSE Append(history, entry)

\* processLocationUpdate(deliveryId, driverId, location), with
\* location.approximateTime the time of the call.
processLocationUpdate(d, driverId, zoneId, movementState) ==
    LET entry == [zoneId |-> zoneId, timestamp |-> now,
                  isMoving |-> movementState = "moving"]
        history == pushHistory(driverHistory[driverId], entry)
        alerts == locationAlerts(d, driverId, zoneId, history)
    IN
    /\ driverHistory' = [driverHistory EXCEPT ![driverId] = history]
    /\ alertStore' = alertStore \o alerts
    /\ deliveryAlerts' =
           [deliveryAlerts EXCEPT ![d] =
               @ \o [i \in 1 .. Len(alerts) |-> Len(alertStore) + i]]
    /\ movementLog' = [movementLog EXCEPT ![driverId] = pushHistory(@, movementState)]
    /\ UNCHANGED expectedRoutes
    /\ UNCHANGED <<verifierVars, emergencyVars, broadcastVars, notifierVars, httpVars, cryptoVars, codeVars, wireVars>>

\* setExpectedRoute(deliveryId, zoneSequence, estimatedDuration)
setExpectedRoute(d, zoneSequence) ==
    /\ expectedRoutes' = [expectedRoutes EXCEPT ![d] = zoneSequence]
    /\ UNCHANGED <<alertStore, deliveryAlerts, driverHistory, movementLog>>
    /\ UNCHANGED <<verifierVars, emergencyVars, broadcastVars, notifierVars, httpVars, cryptoVars, codeVars, wireVars>>

\* Time passes between two monitor calls.
MonitorTick ==
    /\ now' = now + MonitorQuantum
    /\ UNCHANGED <<otpStore, photoStore, signatureStore, verificationStore,
                   deliverySecrets, attemptIncrements, probe>>
    /\ UNCHANGED <<emergencyVars, broadcastVars, notifierVars, monitorVars, httpVars, cryptoVars, codeVars, wireVars>>

NextMonitor ==
    \/ now < MaxMonitorTicks * MonitorQuantum /\ MonitorTick
    \/ \E d \in MonitorDeliveries, dr \in Drivers, silent \in SilentSeconds :
           Len(alertStore) < MaxAlerts /\ checkCommunicationLoss(d, dr, silent)
    \/ \E id \in 1 .. MaxAlerts + 1, by \in Officers : acknowledgeAlert(id, by)
    \/ \E id \in 1 .. MaxAlerts + 1, by \in Officers, st \in ResolutionStatuses :
           resolveAlert(id, by, st)

SpecMonitor == Init /\ [][NextMonitor]_vars

\* ---------------------------------------------------------------------------
\* Location updates of one driver on one delivery
\* ---------------------------------------------------------------------------

\* Time passes between two location updates.
Elapse(seconds) ==
    /\ now' = now + seconds
    /\ UNCHANGED <<otpStore, photoStore, signatureStore, verificationStore,
                   deliverySecrets, attemptIncrements, probe>>
    /\ UNCHANGED <<emergencyVars, broadcastVars, notifierVars, monitorVars, httpVars, cryptoVars, codeVars, wireVars>>

\* The zones a driver has reported so far, and the next unseen one.
ZonesSeen(driverId) == {driverHistory[driverId][i].zoneId : i \in DOMAIN driverHistory[driverId]}
NextZones(driverId) == 1 .. Cardinality(ZonesSeen(driverId)) + 1

\* Zone changes: the obfuscator reports movementState 'unknown'.
NextTamper ==
    \/ now < MaxTamperTicks * TamperQuantum /\ Elapse(TamperQuantum)
    \/ \E z \in NextZones("u1") :
           /\ Len(driverHistory["u1"]) < MaxLocationUpdates
           /\ processLocationUpdate("d1", "u1", z, "unknown")

SpecTamper == Init /\ [][NextTamper]_vars

\* Stops: every movement state the route accepts, in one zone, on or off an
\* expected route.
NextStop ==
    \/ now < MaxStopTicks * StopQuantum /\ Elapse(StopQuantum)
    \/ \E m \in MovementStates :
           /\ Len(driverHistory["u1"]) < MaxStopUpdates
           /\ processLocationUpdate("d1", "u1", 1, m)
    \/ \E zoneSequence \in ExpectedRoutes : setExpectedRoute("d1", zoneSequence)

SpecStop == Init /\ [][NextStop]_vars

\* A long run of updates, one per second, of a moving driver in one zone, with a
\* second driver reporting in between.
UpdatedNow ==
    \E dr \in Drivers :
        /\ driverHistory[dr] # <<>>
        /\ driverHistory[dr][Len(driverHistory[dr])].timestamp = now

NextHistory ==
    \/ UpdatedNow /\ now + 1 < MaxHistoryUpdates /\ Elapse(1)
    \/ ~UpdatedNow /\ processLocationUpdate("d1", "u1", 1, "moving")
    \/ /\ ~UpdatedNow
       /\ Len(driverHistory["u2"]) < MaxOtherUpdates
       /\ processLocationUpdate("d1", "u2", 1, "moving")

SpecHistory == Init /\ [][NextHistory]_vars

----------------------------------------------------------------------------
(* The audit sink (logSecurityEvent / createAuditEntry write to the logger,   *)
(* which nothing reads back): for each operation, the entries one call made   *)
(* in the current state appends, in order.                                    *)

NoDetails == <<>>       \* the entry has no details object
NoNotes == "none"       \* resolveAlert called without notes

\* The object handed to logSecurityEvent.
SecurityEvent(type, action, result, details) ==
    [type |-> type, action |-> action, result |-> result, details |-> details]

\* updateVerification: the 'delivery_verification' entry of a completion.
updateVerificationAudit(d, method) ==
    LET v == verificationStore[d]
        completed == IF method \in Range(v.methodsCompleted)
                        THEN v.methodsCompleted
                        ELSE Append(v.methodsCompleted, method)
    IN  IF v.exists /\ AllComplete(v.methodsRequired, completed) /\ ~v.isComplete
           THEN <<SecurityEvent("delivery_verification", "complete", "success",
                                [methods |-> completed])>>
           ELSE <<>>

initializeVerificationAudit(d, requiredMethods) == <<>>

generateOTPAudit(d, r) == <<>>

verifyOTPAudit(d, providedOTP) ==
    LET result == verifyOTPResult(d, providedOTP)
        failure(reason) == SecurityEvent("otp_verification", "verify", "failure",
                                         [reason |-> reason])
    IN  CASE result.reason = "no_otp_generated" -> <<failure("no_secret")>>
          [] result.reason = "no_pending_otp" -> <<>>
          [] result.reason = "otp_expired" -> <<failure("expired")>>
          [] result.reason = "max_attempts_exceeded" -> <<failure("max_attempts")>>
          [] result.reason = "none" ->
                 <<SecurityEvent("otp_verification", "verify", "success", NoDetails)>>
                     \o updateVerificationAudit(d, "otp")
          [] OTHER ->
                 <<SecurityEvent("otp_verification", "verify", "failure",
                       [reason |-> "invalid_otp",
                        attemptCount |->
                            otpStore[PendingIndex(otpStore, d)].attemptCount + 1])>>

storeDeliveryPhotoAudit(d) == updateVerificationAudit(d, "photo")

storeSignatureAudit(d) == updateVerificationAudit(d, "signature")

\* Mutant of verifyGeofenceAudit: the driver's fix is logged with the distance.
verifyGeofenceAudit_WithLocation(d, driverLocation, distance, radiusMeters) ==
    <<SecurityEvent("geofence_verification", "verify",
                    IF distance <= radiusMeters THEN "success" ELSE "failure",
                    [distance |-> distance, radius |-> radiusMeters,
                     latitude |-> driverLocation.latitude,
                     longitude |-> driverLocation.longitude])>>
        \o (IF distance <= radiusMeters
               THEN updateVerificationAudit(d, "geofence") ELSE <<>>)

\* verifyGeofence(deliveryId, driverLocation, deliveryLocation, radiusMeters),
\* with distance = calculateDistance(driverLocation, deliveryLocation).
verifyGeofenceAudit(d, driverLocation, distance, radiusMeters) ==
    <<SecurityEvent("geofence_verification", "verify",
                    IF distance <= radiusMeters THEN "success" ELSE "failure",
                    [distance |-> distance, radius |-> radiusMeters])>>
        \o (IF distance <= radiusMeters
               THEN updateVerificationAudit(d, "geofence") ELSE <<>>)

createFallbackVerificationAudit(d, fallbackCode) ==
    IF fallbackIsValid(d, fallbackCode)
       THEN <<SecurityEvent("fallback_verification", "verify", "success", NoDetails)>>
       ELSE <<>>

checkCommunicationLossAudit(d, driverId, silent) == <<>>

\* Mutant of acknowledgeAlertAudit: the entry is logged before the lookup.
acknowledgeAlertAudit_BeforeLookup(alertId, by) ==
    <<SecurityEvent("alert_acknowledged", "acknowledge", "success", NoDetails)>>

acknowledgeAlertAudit(alertId, by) ==
    IF alertId \in DOMAIN alertStore
       THEN <<SecurityEvent("alert_acknowledged", "acknowledge", "success", NoDetails)>>
       ELSE <<>>

resolveAlertAudit(alertId, by, status) ==
    IF alertId \in DOMAIN alertStore
       THEN <<SecurityEvent("alert_resolved", "resolve", "success",
                            [status |-> status, notes |-> NoNotes])>>
       ELSE <<>>

\* createEmergencyRecord: its 'emergency' entry.
createEmergencyRecordAudit(emergencyType) ==
    <<SecurityEvent("emergency", "trigger", "success",
                    [emergencyType |-> emergencyType])>>

triggerPanicButtonAudit(dr, location, deliveryId) ==
    IF triggerPanicButtonResult(dr) <= Len(emergencyStore)
       THEN <<>>
       ELSE createEmergencyRecordAudit("panic_button")

processAccelerometerDataAudit(dr, reading, location, deliveryId) ==
    IF ImpactDetected(reading) /\ activeEmergencies[dr] = 0
       THEN createEmergencyRecordAudit("accident_detected")
       ELSE <<>>

acknowledgeEmergencyAudit(emergencyId) == <<>>

resolveEmergencyAudit(emergencyId) == <<>>

sendNotificationAudit(recipientId, channel, priority, adapterOk) == <<>>

markAsDeliveredAudit(id) == <<>>

markAsReadAudit(id) == <<>>

generateDeliveryCodeAudit(deliveryId, userId, theme) == <<>>

\* auditMiddleware: the access record written when a response is sent.
auditMiddleware(actorId, method, path, resourceId, statusCode) ==
    [actorId |-> actorId, action |-> <<method, path>>,
     resourceType |-> path, resourceId |-> resourceId,
     metadata |-> [ipAddress |-> "ip", userAgent |-> "agent", requestId |-> "req"],
     result |-> IF statusCode < 400 THEN "success"
                ELSE IF statusCode = 403 THEN "denied" ELSE "failure"]

----------------------------------------------------------------------------
(* Broadcast wrappers (broadcaster.ts): the payload and the call. *)

broadcastDeliveryUpdatePayload(deliveryId, status, zoneDescription) ==
    [deliveryId |-> deliveryId, status |-> status, zoneDescription |-> zoneDescription]

broadcastDeliveryUpdate(deliveryId) ==
    broadcast([deliveryId |-> deliveryId, userIds |-> <<>>, roles |-> <<>>])

broadcastSecurityAlertPayload(deliveryId, alertType, severity) ==
    [deliveryId |-> deliveryId, alertType |-> alertType, severity |-> severity]

broadcastSecurityAlert(deliveryId) ==
    broadcast([deliveryId |-> deliveryId, userIds |-> <<>>,
               roles |-> <<"security_officer", "admin">>])

broadcastEmergencyPayload(driverId, emergencyId) ==
    [driverId |-> driverId, emergencyId |-> emergencyId]

broadcastEmergency(driverId, emergencyId) ==
    broadcast([deliveryId |-> NoDelivery, userIds |-> <<>>,
               roles |-> <<"security_officer", "admin", "dispatcher">>])

\* The operations that take raw coordinates or publish outside the emergency
\* path, side by side: geofence verification, the alert lifecycle and the
\* broadcast wrappers.
NextPrivacy ==
    \/ \E d \in Driven, req \in RequiredChoices : initializeVerification(d, req)
    \/ \E d \in Driven, data \in SampleSignatures :
           /\ Len(signatureStore) < MaxSignatures
           /\ storeSignature(d, data, NoSignerName, "iv1", "iv1")
    \/ \E d \in Driven, dist \in Distances :
           verifyGeofence(d, dist, DEFAULT_GEOFENCE_RADIUS)
    \/ \E d \in MonitorDeliveries, dr \in Drivers, silent \in SilentSeconds :
           Len(alertStore) < MaxAlerts /\ checkCommunicationLoss(d, dr, silent)
    \/ \E id \in 1 .. MaxAlerts + 1, by \in Officers : acknowledgeAlert(id, by)
    \/ \E id \in 1 .. MaxAlerts + 1, by \in Officers, st \in ResolutionStatuses :
           resolveAlert(id, by, st)
    \/ \E d \in RoomDeliveries : eventCtr < MaxEvents /\ broadcastDeliveryUpdate(d)
    \/ \E d \in RoomDeliveries : eventCtr < MaxEvents /\ broadcastSecurityAlert(d)
    \/ \E dr \in Drivers, id \in 1 .. MaxEmergencies :
           eventCtr < MaxEvents /\ broadcastEmergency(dr, id)

SpecPrivacy == Init /\ [][NextPrivacy]_vars

----------------------------------------------------------------------------
(* Delivery code generator (generator.ts). *)

\* const THEMES
THEMES ==
    [theme \in {"safari", "coastal", "mountain", "tech"} |->
        CASE theme = "safari" ->
                 <<"LION", "ZEBRA", "RHINO", "LEOPARD", "BUFFALO", "ACACIA", "SAVANNA">>
          [] theme = "coastal" ->
                 <<"OCEAN", "WAVE", "CORAL", "PALM", "DNOW", "REEF", "SAND">>
          [] theme = "mountain" ->
                 <<"PEAK", "RIDGE", "CLIFF", "ICE", "SNOW", "SUMMIT", "ALPINE">>
          [] OTHER ->
                 <<"CYBER", "NANO", "QUANTUM", "DATA", "SYNC", "GRID", "LINK">>]

\* hmacSha256(`${deliveryId}:${userId}`, config.hmacSecret): lowercase hex
\* digest (first 6 digits).
CodeHashHex(deliveryId, userId) ==
    CASE deliveryId = "d1" /\ userId = "u1" -> <<"0", "9", "f", "e", "a", "7">>
      [] deliveryId = "d1" -> <<"c", "4", "1", "d", "0", "b">>
      [] userId = "u1" -> <<"7", "7", "a", "0", "e", "3">>
      [] OTHER -> <<"2", "b", "6", "8", "5", "c">>

HexDigits ==
    <<"0", "1", "2", "3", "4", "5", "6", "7", "8", "9", "a", "b", "c", "d", "e", "f">>

HexValue(c) == (CHOOSE i \in DOMAIN HexDigits : HexDigits[i] = c) - 1

\* parseInt(s, 16) of a two-digit string
ParseHexByte(s) == 16 * HexValue(s[1]) + HexValue(s[2])

\* THEMES[theme] || THEMES.safari: the value picked and its .length. A name
\* inherited from Object.prototype yields a function, which is truthy, has a
\* length of 0 or 1 and no indexed elements.
ThemeWordList(theme) ==
    IF theme \in DOMAIN THEMES
       THEN [items |-> THEMES[theme], length |-> Len(THEMES[theme])]
       ELSE IF theme \in ObjectPrototypeNames
               THEN [items |-> <<>>,
                     length |-> IF theme \in {"constructor", "hasOwnProperty"}
                                   THEN 1 ELSE 0]
               ELSE [items |-> THEMES["safari"], length |-> Len(THEMES["safari"])]

\* `${wordList[n % wordList.length]}`: an index that is NaN or past the
\* elements reads undefined.
ThemeWord(wordList, n) ==
    IF wordList.length = 0 \/ (n % wordList.length) + 1 \notin DOMAIN wordList.items
       THEN "undefined"
       ELSE wordList.items[(n % wordList.length) + 1]

\* generateDeliveryCode: code, as its three parts joined by '-'.
deliveryCode(deliveryId, userId, theme) ==
    LET hash == CodeHashHex(deliveryId, userId)
        wordList == ThemeWordList(theme)
    IN  <<ThemeWord(wordList, ParseHexByte(SubSeq(hash, 1, 2))),
          ThemeWord(wordList, ParseHexByte(SubSeq(hash, 3, 4))),
          ToUpperCase(SubSeq(hash, 5, 6))>>

\* generateDeliveryCode(deliveryId, userId, theme): the record returned, with
\* id the fresh uuid.
generateDeliveryCode(deliveryId, userId, theme) ==
    /\ issuedCodes' = Append(issuedCodes,
           [id |-> Len(issuedCodes) + 1, deliveryId |-> deliveryId,
            code |-> deliveryCode(deliveryId, userId, theme), theme |-> theme,
            expiresAt |-> now + CodeValidityHours * 60 * 60,
            generatedBy |-> userId, createdAt |-> now])
    /\ UNCHANGED <<verifierVars, emergencyVars, broadcastVars, notifierVars,
                   monitorVars, httpVars, cryptoVars, wireVars>>

NextCodes ==
    \/ now < MaxCodeTicks * ClockQuantum /\ Tick
    \/ \E deliveryId \in CodeDeliveries, userId \in CodeUsers, theme \in ThemeInputs :
           Len(issuedCodes) < MaxCodes /\ generateDeliveryCode(deliveryId, userId, theme)

SpecCodes == Init /\ [][NextCodes]_vars

----------------------------------------------------------------------------
(* Calls of encrypt and decrypt on their own. *)

\* encrypt(text, contextId) is called.
encryptCall(text, contextId, iv) ==
    /\ sealed' = [text |-> text, contextId |-> contextId,
                  encrypted |-> encrypt(text, contextId, iv)]
    /\ opened' = NotOpened
    /\ UNCHANGED <<verifierVars, emergencyVars, broadcastVars, notifierVars,
                   monitorVars, httpVars, codeVars, wireVars>>

\* decrypt is called on the result of that call.
decryptCall(contextId) ==
    /\ sealed # NotSealed
    /\ opened' = [contextId |-> contextId,
                  outcome |-> decrypt(sealed.encrypted, contextId)]
    /\ UNCHANGED sealed
    /\ UNCHANGED <<verifierVars, emergencyVars, broadcastVars, notifierVars,
                   monitorVars, httpVars, codeVars, wireVars>>

NextCrypto ==
    \/ \E text \in Plaintexts, contextId \in Contexts, iv \in IVs :
           encryptCall(text, contextId, iv)
    \/ \E contextId \in Contexts : decryptCall(contextId)

SpecCrypto == Init /\ [][NextCrypto]_vars

----------------------------------------------------------------------------
(* Access control (access-control.ts) and the HTTP middleware                *)
(* (auth.middleware.ts). A request is served in steps: authMiddleware, then  *)
(* the guards and the handler of its route while no answer was sent.         *)

\* getUserPermissions(role): ROLE_PERMISSIONS[role] || []
getUserPermissions(role) ==
    IF role \in DOMAIN ROLE_PERMISSIONS THEN ROLE_PERMISSIONS[role] ELSE <<>>

\* hasPermission(userRole, permission)
hasPermission(userRole, permission) ==
    LET perms == getUserPermissions(userRole) IN
    Wildcard \in Range(perms) \/ permission \in Range(perms)

\* requirePermission(permission): whether the guard calls next() for req.user.
requirePermissionPasses(user, permission) ==
    user # NoUser /\ permission \in Range(user.permissions)

\* requireRole(...roles): whether the guard calls next() for req.user.
requireRolePasses(user, roles) ==
    user # NoUser /\ user.role \in roles

\* authMiddleware on a new request.
authMiddleware(authHeader) ==
    /\ IF authHeader.scheme # "Bearer"
          THEN reqUser' = NoUser /\ resStatus' = 0
          ELSE IF authHeader.valid
                  THEN /\ reqUser' = [id |-> authHeader.userId, role |-> authHeader.role,
                                      permissions |-> getUserPermissions(authHeader.role)]
                       /\ resStatus' = 0
                  ELSE reqUser' = NoUser /\ resStatus' = 401
    /\ UNCHANGED <<verifierVars, emergencyVars, broadcastVars, notifierVars, monitorVars, cryptoVars, codeVars, wireVars>>

\* The audit entries of the 401 that authMiddleware itself sends: it runs
\* before auditMiddleware has wrapped res.send, so the response is not recorded.
authMiddlewareAudit(authHeader) == <<>>

\* The audit entry of a response sent after auditMiddleware has run (by a
\* guard or a route), for the request being served.
sentResponseAudit(method, path, statusCode) ==
    <<auditMiddleware(IF reqUser = NoUser THEN "anonymous" ELSE reqUser.id,
                      method, path, "d1", statusCode)>>

\* requireAuth as a guard of the request being served.
requireAuth ==
    /\ resStatus = 0
    /\ resStatus' = IF reqUser = NoUser THEN 401 ELSE 0
    /\ UNCHANGED reqUser
    /\ UNCHANGED <<verifierVars, emergencyVars, broadcastVars, notifierVars, monitorVars, cryptoVars, codeVars, wireVars>>

\* requirePermission(permission) as a guard of the request being served.
requirePermission(permission) ==
    /\ resStatus = 0
    /\ resStatus' = IF requirePermissionPasses(reqUser, permission) THEN 0 ELSE 403
    /\ UNCHANGED reqUser
    /\ UNCHANGED <<verifierVars, emergencyVars, broadcastVars, notifierVars, monitorVars, cryptoVars, codeVars, wireVars>>

\* POST /api/verification/initialize
postVerificationInitialize(d, requiredMethods) ==
    /\ resStatus = 0
    /\ initializeVerification(d, requiredMethods)

\* POST /api/emergency/panic
postEmergencyPanic(dr, location, deliveryId) ==
    /\ resStatus = 0
    /\ triggerPanicButton(dr, location, deliveryId)

\* POST /api/emergency/:emergencyId/acknowledge
postEmergencyAcknowledge(emergencyId) ==
    /\ resStatus = 0
    /\ acknowledgeEmergency(emergencyId)

\* PUT /api/notifications/preferences: answers 401 without req.user.
putNotificationPreferences(channels) ==
    /\ resStatus = 0
    /\ IF reqUser = NoUser
          THEN UNCHANGED vars
          ELSE setUserPreferences(reqUser.id, channels)

NextHttp ==
    \/ \E authHeader \in AuthHeaders : authMiddleware(authHeader)
    \/ requireAuth
    \/ \E permission \in Permissions : requirePermission(permission)
    \/ \E d \in Driven, req \in RequiredChoices : postVerificationInitialize(d, req)
    \/ \E dr \in Drivers, loc \in Locations, del \in OptDeliveries :
           Len(emergencyStore) < MaxEmergencies /\ postEmergencyPanic(dr, loc, del)
    \/ \E id \in 1 .. MaxEmergencies + 1 : postEmergencyAcknowledge(id)
    \/ \E channels \in ChannelLists : putNotificationPreferences(channels)

SpecHttp == Init /\ [][NextHttp]_vars

----------------------------------------------------------------------------
(* Claims about the delivery verifier *)

\* C1: verification is monotone: once a delivery's DeliveryVerification has
\* isComplete = true, no later verifier operation makes it false again.
C1_VerificationMonotone ==
    [][\A d \in Deliveries :
          verificationStore[d].isComplete => verificationStore'[d].isComplete]_vars

\* C2: for every DeliveryVerification record, isComplete holds if and only if
\* every method of methodsRequired is in methodsCompleted.
C2_CompleteIffRequiredCompleted ==
    \A d \in Deliveries :
        LET v == verificationStore[d] IN
        v.exists => (v.isComplete <=> AllComplete(v.methodsRequired, v.methodsCompleted))

RecordsOf(d) == {i \in 1 .. Len(otpStore) : otpStore[i].deliveryId = d}

RECURSIVE SumAttempts(_)
SumAttempts(S) ==
    IF S = {} THEN 0
    ELSE LET i == CHOOSE j \in S : TRUE
         IN  otpStore[i].attemptCount + SumAttempts(S \ {i})

\* C3 (as stated): for any delivery, at most 5 verifyOTP calls ever increment
\* an attemptCount, and no OTP record has attemptCount > 5.
C3_AttemptBoundPerDelivery ==
    /\ \A d \in Deliveries : attemptIncrements[d] <= 5
    /\ \A i \in 1 .. Len(otpStore) : otpStore[i].attemptCount <= 5

\* C3 (amended): no OTP record has attemptCount > 5, and every incrementing
\* verifyOTP call increments one record of its delivery, so the incrementing
\* calls of a delivery number at most 5 for each OTP record generated for it.
C3_AttemptBoundPerRecord ==
    /\ \A i \in 1 .. Len(otpStore) : otpStore[i].attemptCount <= 5
    /\ \A d \in Deliveries :
          /\ attemptIncrements[d] = SumAttempts(RecordsOf(d))
          /\ attemptIncrements[d] <= 5 * Cardinality(RecordsOf(d))

\* A record at its bound while its delivery has seen more than 5 incrementing calls.
C3_Witness ==
    \E i \in 1 .. Len(otpStore) :
        /\ otpStore[i].attemptCount = 5
        /\ attemptIncrements[otpStore[i].deliveryId] > 5

InitializedForOtp(d) ==
    /\ verificationStore[d].exists
    /\ verificationStore[d].methodsRequired = <<"otp">>

\* What the brute-force scenario promises for the next verifyOTP call on d
\* after n calls with a wrong token.
BruteForceOutcome(d, n) ==
    /\ n <= 4 => verifyOTPResult(d, WrongToken) = VerifyResult(FALSE, "invalid_otp", 4 - n)
    /\ n = 5 => verifyOTPResult(d, WrongToken).reason = "max_attempts_exceeded"
    /\ n >= 6 => \A t \in Tokens : verifyOTPResult(d, t).reason = "max_attempts_exceeded"

\* C4 (as stated): after initializeVerification(D, [otp]), six successive
\* verifyOTP(D, wrong) calls return invalid_otp with remaining 4, 3, 2, 1, 0 and
\* then max_attempts_exceeded, and so does any later call with the correct token.
C4_BruteForceAfterInitialize ==
    \A d \in Deliveries :
        (InitializedForOtp(d) /\ probe[d] >= 0) => BruteForceOutcome(d, probe[d])

PendingUnexpired(d) ==
    /\ PendingIndex(otpStore, d) # 0
    /\ ~(otpStore[PendingIndex(otpStore, d)].expiresAt < now)

\* C4 (amended): the same outcomes, provided generateOTP(D, R) was called
\* before the first verifyOTP and the calls are made before that OTP expires.
C4_BruteForceAfterGenerate ==
    \A d \in Deliveries :
        (InitializedForOtp(d) /\ probe[d] >= 0 /\ d \in deliverySecrets /\ PendingUnexpired(d))
            => BruteForceOutcome(d, probe[d])

\* Six wrong tokens have been tried on an initialized delivery with a live OTP.
C4_Witness ==
    \E d \in Deliveries :
        /\ InitializedForOtp(d) /\ probe[d] = 6
        /\ d \in deliverySecrets /\ PendingUnexpired(d)

HasVerifiedRecord(d) == \E i \in RecordsOf(d) : otpStore[i].isVerified

AllRecordsVerified(d) ==
    /\ RecordsOf(d) # {}
    /\ \A i \in RecordsOf(d) : otpStore[i].isVerified

----------------------------------------------------------------------------
(* Claims about the emergency orchestrator *)

Unresolved(dr) ==
    {i \in 1 .. Len(emergencyStore) :
        emergencyStore[i].driverId = dr /\ emergencyStore[i].status # "resolved"}

\* C6: in every reachable state each driver has at most one emergency record
\* whose status is not resolved.
C6_AtMostOneUnresolved ==
    \A dr \in Drivers : Cardinality(Unresolved(dr)) <= 1

\* C7: two triggerPanicButton calls for one driver with no resolveEmergency
\* between them return the same id, and the second creates no record.
C7_PanicIdempotent ==
    [][\A dr \in Drivers, loc \in Locations, del \in OptDeliveries :
          (lastPanic[dr] # 0 /\ triggerPanicButton(dr, loc, del)) =>
              /\ lastPanic'[dr] = lastPanic[dr]
              /\ Len(emergencyStore') = Len(emergencyStore)]_vars

----------------------------------------------------------------------------
(* Claims about the real-time broadcaster *)

\* C8: one broadcast call delivers its event at most once to a session, even
\* when the session matches more than one audience criterion (delivery room,
\* userIds, roles).
C8_BroadcastAtMostOncePerSession ==
    [][\A audience \in Audiences :
          broadcast(audience) =>
              \A s \in Sessions : broadcastEmits(s, audience) <= 1]_vars

\* The last n elements of a sequence (all of it when it is shorter).
LastN(seq, n) ==
    IF Len(seq) <= n THEN seq ELSE SubSeq(seq, Len(seq) - n + 1, Len(seq))

\* C9: an offline queue never holds more than 50 events, and it holds the
\* most recent (at most 50) events queued for the user since it was last
\* emptied, in the order they were queued: on overflow the oldest goes.
C9_QueueKeepsMostRecent50 ==
    \A u \in Users :
        /\ Len(offlineQueue[u]) <= OfflineQueueLimit
        /\ offlineQueue[u] = LastN(queuedSinceDrain[u], OfflineQueueLimit)

\* More than 50 events were queued for an offline user without a drain.
C9_Witness ==
    \E u \in Users :
        /\ Len(queuedSinceDrain[u]) > OfflineQueueLimit
        /\ Len(offlineQueue[u]) = OfflineQueueLimit

SessionsOf(u) == {s \in Sessions : clients[s] # NoClient /\ clients[s].userId = u}

\* C11: a broadcast reaches every user named in audience.userIds: a user with
\* an authenticated session gets the event on every such session and nothing
\* is queued; a user with none gets the event appended to the offline queue.
C11_TargetedUserServedOrQueued ==
    [][\A audience \in Audiences :
          broadcast(audience) =>
              \A u \in Range(audience.userIds) :
                  IF SessionsOf(u) # {}
                     THEN /\ \A s \in SessionsOf(u) : broadcastEmits(s, audience) >= 1
                          /\ offlineQueue'[u] = offlineQueue[u]
                     ELSE /\ offlineQueue'[u] # <<>>
                          /\ offlineQueue'[u][Len(offlineQueue'[u])] = eventCtr']_vars

\* One event went to the queue of an offline user while another user was served live.
C11_Witness ==
    \E e \in 1 .. eventCtr :
        /\ e \in Range(queuedLog["u2"])
        /\ e \notin Range(queuedLog["u1"])
        /\ SessionsOf("u1") # {}
        /\ SessionsOf("u2") = {}

----------------------------------------------------------------------------
(* Claims about the notification service *)

\* The status moves the lifecycle allows: pending -> sent -> delivered -> read,
\* with failed reached from pending only.
StatusStep(from, to) ==
    \/ to = from
    \/ from = "pending" /\ to \in {"sent", "failed"}
    \/ from = "sent" /\ to = "delivered"
    \/ from = "delivered" /\ to = "read"

\* C12: a notification's status only moves along pending -> sent -> delivered
\* -> read, with failed as the alternate end: it never moves backwards, never
\* skips a state, and never leaves failed or read.
C12_StatusMonotone ==
    [][\A id \in DOMAIN notificationStore :
          StatusStep(notificationStore[id].status, notificationStore'[id].status)]_vars

\* The first n retry delays.
DelayPrefix(n) == SubSeq(RETRY_DELAYS, 1, n)

\* C13: a failing notification is retried after 1 s, 5 s, 30 s, 60 s, 300 s in
\* that order and retryCount never exceeds maxRetries = 5; a notification
\* whose attempts all fail is eventually through its last retry, and the
\* failure of that retry sets status failed and a failureReason; an attempt
\* that succeeds sets status sent, and afterwards no attempt is pending or
\* made.
C13_BoundedRetry ==
    /\ [](\A id \in DOMAIN notificationStore :
            LET n == notificationStore[id] IN
            /\ n.retryCount <= 5 /\ n.maxRetries = 5
            /\ n.retryCount <= Len(RETRY_DELAYS)
            /\ notifyLog[id].delays = DelayPrefix(n.retryCount)
            /\ notifyLog[id].succeeded => id \notin retryTimers
            /\ (~notifyLog[id].succeeded /\ notifyLog[id].attempts = 6)
                   => n.failureReason # "none")
    /\ [][\A id \in DOMAIN notificationStore, ok \in BOOLEAN :
            retryTimerFires(id, ok) =>
                /\ ~notifyLog[id].succeeded
                /\ ok => notificationStore'[id].status = "sent"
                /\ (~ok /\ notifyLog[id].attempts = 5) =>
                       /\ notificationStore'[id].status = "failed"
                       /\ notificationStore'[id].failureReason # "none"]_vars
    /\ \A id \in 1 .. MaxNotifications :
           [](id \in DOMAIN notificationStore =>
                 <>(/\ id \in DOMAIN notificationStore
                    /\ \/ notifyLog[id].succeeded
                       \/ /\ notifyLog[id].attempts = 6
                          /\ notificationStore[id].failureReason # "none"))

\* A notification went through its five retries and failed.
C13_Witness ==
    \E id \in DOMAIN notificationStore :
        /\ notifyLog[id].attempts = 6
        /\ notifyLog[id].delays = RETRY_DELAYS
        /\ notificationStore[id].status = "failed"

\* The accepted sends of a key in the 60 seconds that start at time t.
AcceptedInWindow(key, t) ==
    {i \in 1 .. Len(acceptedAt[key]) :
        acceptedAt[key][i] >= t /\ acceptedAt[key][i] < t + RateWindowSeconds}

\* C14: for every (recipient, channel), at most 10 sendNotification calls are
\* accepted in any 60-second window, in the first window and in every later
\* one.
C14_RateLimitEveryWindow ==
    \A key \in RateKeys :
        \A i \in 1 .. Len(acceptedAt[key]) :
            Cardinality(AcceptedInWindow(key, acceptedAt[key][i])) <= RateLimitMax

\* C15: a send on a channel outside the recipient's preferred channels is
\* rejected, storing no record and calling no adapter, unless its priority is
\* critical.
C15_NonPreferredChannelRejected ==
    [][\A r \in NotifyRecipients, ch \in Channels, prio \in Priorities, ok \in BOOLEAN :
          (/\ sendNotification(r, ch, prio, ok)
           /\ ch \notin Range(getUserPreferences(r))
           /\ prio # "critical")
              => /\ notificationStore' = notificationStore
                 /\ notifyLog' = notifyLog]_vars

----------------------------------------------------------------------------
(* Claims about the cargo security monitor *)

\* C16: the alert lifecycle is new -> acknowledged -> resolved: an alert has a
\* resolution only once it is acknowledged, and once it has a resolution no
\* acknowledgeAlert or resolveAlert call changes its acknowledgement or its
\* resolution.
C16_AlertLifecycle ==
    /\ [](\A id \in DOMAIN alertStore :
            alertStore[id].resolution # NoResolution => alertStore[id].isAcknowledged)
    /\ [][\A id \in DOMAIN alertStore :
            alertStore[id].resolution # NoResolution =>
                /\ alertStore'[id].resolution = alertStore[id].resolution
                /\ alertStore'[id].isAcknowledged = alertStore[id].isAcknowledged
                /\ alertStore'[id].acknowledgedBy = alertStore[id].acknowledgedBy]_vars

----------------------------------------------------------------------------
(* Claims about the emergency response *)

\* C17: whenever triggerPanicButton or processAccelerometerData creates an
\* emergency, at the end of the call the record is 'responding', a
\* priority-critical notification has been accepted for each of the driver's
\* emergency contacts, and exactly one event has been broadcast.
C17_EmergencyFanOut ==
    [][Len(emergencyStore') > Len(emergencyStore) =>
          LET e == emergencyStore'[Len(emergencyStore')] IN
          /\ e.status = "responding"
          /\ \A c \in Range(emergencyContacts[e.driverId]) :
                 \E id \in DOMAIN notificationStore' \ DOMAIN notificationStore :
                     /\ notificationStore'[id].recipientId = c
                     /\ notificationStore'[id].priority = "critical"
          /\ eventCtr' = eventCtr + 1]_vars

----------------------------------------------------------------------------
(* Claims about privacy and the audit trail *)

\* Field names under which a raw coordinate travels.
CoordinateFields ==
    {"latitude", "longitude", "location", "driverLocation", "deliveryLocation"}

\* The field names of an audit entry, its details and metadata included.
EntryFields(e) ==
    DOMAIN e
        \cup (IF "details" \in DOMAIN e THEN DOMAIN e.details ELSE {})
        \cup (IF "metadata" \in DOMAIN e THEN DOMAIN e.metadata ELSE {})

AuditClean(entries) ==
    \A i \in DOMAIN entries : EntryFields(entries[i]) \cap CoordinateFields = {}

\* C18: in every reachable state, no audit entry that a call of the verifier,
\* the monitor, the code generator or the notifier appends, no access record of the audit
\* middleware and no payload of a delivery-update or security-alert broadcast
\* has a latitude or longitude field.
C18_NoCoordinatesOutsideEmergency ==
    /\ \A d \in Deliveries :
          /\ \A req \in RequiredChoices : AuditClean(initializeVerificationAudit(d, req))
          /\ \A r \in Recipients : AuditClean(generateOTPAudit(d, r))
          /\ \A t \in Tokens : AuditClean(verifyOTPAudit(d, t))
          /\ AuditClean(storeDeliveryPhotoAudit(d))
          /\ AuditClean(storeSignatureAudit(d))
          /\ \A fix \in DriverFixes, dist \in Distances :
                 AuditClean(verifyGeofenceAudit(d, fix, dist, DEFAULT_GEOFENCE_RADIUS))
          /\ \A c \in FallbackCodes : AuditClean(createFallbackVerificationAudit(d, c))
    /\ \A d \in MonitorDeliveries, dr \in Drivers, silent \in SilentSeconds :
          AuditClean(checkCommunicationLossAudit(d, dr, silent))
    /\ \A id \in 1 .. MaxAlerts + 1, by \in Officers :
          /\ AuditClean(acknowledgeAlertAudit(id, by))
          /\ \A st \in ResolutionStatuses : AuditClean(resolveAlertAudit(id, by, st))
    /\ \A u \in NotifyRecipients, ch \in Channels, pr \in Priorities, ok \in BOOLEAN :
          AuditClean(sendNotificationAudit(u, ch, pr, ok))
    /\ \A id \in 1 .. MaxNotifications + 1 :
          AuditClean(markAsDeliveredAudit(id)) /\ AuditClean(markAsReadAudit(id))
    /\ \A d \in CodeDeliveries, u \in CodeUsers, theme \in ThemeInputs :
          AuditClean(generateDeliveryCodeAudit(d, u, theme))
    /\ \A u \in Users, m \in HttpMethods, path \in HttpPaths,
          d \in Deliveries, code \in StatusCodes :
          AuditClean(<<auditMiddleware(u, m, path, d, code)>>)
    /\ \A d \in RoomDeliveries :
          /\ \A st \in DeliveryStatuses, z \in ZoneDescriptions :
                 DOMAIN broadcastDeliveryUpdatePayload(d, st, z) \cap CoordinateFields = {}
          /\ \A a \in AlertTypes, sev \in Severities :
                 DOMAIN broadcastSecurityAlertPayload(d, a, sev) \cap CoordinateFields = {}

\* A geofence check has completed a verification, an alert has been resolved
\* and an event has been broadcast.
C18_Witness ==
    /\ \E d \in Driven :
          /\ verificationStore[d].isComplete
          /\ "geofence" \in Range(verificationStore[d].methodsCompleted)
          /\ Len(verificationStore[d].methodsCompleted) = 2
    /\ \E id \in DOMAIN alertStore : alertStore[id].resolution # NoResolution
    /\ eventCtr > 0

\* C19: the alert:emergency event published for an emergency record carries
\* that record's location.
C19_EmergencyPayloadHasLocation ==
    \A id \in DOMAIN emergencyStore :
        LET e == emergencyStore[id]
            payload == broadcastEmergencyPayload(e.driverId, id)
        IN  /\ "location" \in DOMAIN payload
            /\ payload.location = e.location

\* C20: every call of a state-mutating public operation appends exactly one
\* entry to the audit sink.
C20_OneAuditEntryPerCall ==
    /\ \A d \in Deliveries :
          /\ \A req \in RequiredChoices : Len(initializeVerificationAudit(d, req)) = 1
          /\ \A r \in Recipients : Len(generateOTPAudit(d, r)) = 1
          /\ \A t \in Tokens : Len(verifyOTPAudit(d, t)) = 1
          /\ Len(storeDeliveryPhotoAudit(d)) = 1
          /\ Len(storeSignatureAudit(d)) = 1
          /\ \A fix \in DriverFixes, dist \in Distances :
                 Len(verifyGeofenceAudit(d, fix, dist, DEFAULT_GEOFENCE_RADIUS)) = 1
          /\ \A c \in FallbackCodes : Len(createFallbackVerificationAudit(d, c)) = 1
    /\ \A d \in MonitorDeliveries, dr \in Drivers, silent \in SilentSeconds :
          Len(checkCommunicationLossAudit(d, dr, silent)) = 1
    /\ \A id \in DOMAIN alertStore, by \in Officers :
          /\ Len(acknowledgeAlertAudit(id, by)) = 1
          /\ \A st \in ResolutionStatuses : Len(resolveAlertAudit(id, by, st)) = 1
    /\ \A dr \in Drivers, loc \in Locations, del \in OptDeliveries :
          /\ Len(triggerPanicButtonAudit(dr, loc, del)) = 1
          /\ \A reading \in Readings :
                 Len(processAccelerometerDataAudit(dr, reading, loc, del)) = 1
    /\ \A id \in DOMAIN emergencyStore :
          Len(acknowledgeEmergencyAudit(id)) = 1 /\ Len(resolveEmergencyAudit(id)) = 1
    /\ \A u \in NotifyRecipients, ch \in Channels, pr \in Priorities, ok \in BOOLEAN :
          Len(sendNotificationAudit(u, ch, pr, ok)) = 1
    /\ \A id \in DOMAIN notificationStore :
          Len(markAsDeliveredAudit(id)) = 1 /\ Len(markAsReadAudit(id)) = 1

----------------------------------------------------------------------------
(* Claims about access control *)

\* C21: for an authenticated user of any role and any permission, the
\* requirePermission guard decides as hasPermission(role, permission) does.
C21_GuardAgreesWithHasPermission ==
    reqUser # NoUser =>
        \A permission \in Permissions :
            requirePermissionPasses(reqUser, permission)
                <=> hasPermission(reqUser.role, permission)

----------------------------------------------------------------------------
(* Claims about encryption *)

\* C22: decrypt(encrypt(t, ctx), ctx) returns t for every plaintext t, the
\* empty string included, and decrypt(encrypt(t, ctx), ctx2) with another
\* context fails with an authentication failure.
C22_CiphertextIntegrity ==
    opened # NotOpened =>
        IF opened.contextId = sealed.contextId
           THEN opened.outcome = DecryptOk(sealed.text)
           ELSE opened.outcome = DecryptError("auth_failed")

\* C23: for every stored signature, sha256(decrypt(signatureEncrypted,
\* deliveryId)) equals the stored signatureHash: verifySignatureIntegrity
\* returns true for the signature and its own delivery.
C23_SignatureRoundTrip ==
    \A id \in DOMAIN signatureStore :
        verifySignatureIntegrity(id, signatureStore[id].deliveryId)

----------------------------------------------------------------------------
(* Claims about the delivery code generator *)

\* C24: two generateDeliveryCode calls with the same deliveryId, userId and
\* theme return the same code whatever their id, createdAt and expiresAt, and
\* a call with a theme THEMES does not have returns the code of the default
\* theme.
C24_CodeDeterminism ==
    \A i, j \in DOMAIN issuedCodes :
        LET a == issuedCodes[i]
            b == issuedCodes[j]
        IN  (a.deliveryId = b.deliveryId /\ a.generatedBy = b.generatedBy) =>
                /\ a.theme = b.theme => a.code = b.code
                /\ (a.theme \notin DOMAIN THEMES /\ b.theme = "safari") => a.code = b.code

\* The alerts one call of processLocationUpdate added, and whether the step is
\* such a call for driver u1.
AddedAlerts == SubSeq(alertStore', Len(alertStore) + 1, Len(alertStore'))
IsLocationUpdate == Len(driverHistory'["u1"]) = Len(driverHistory["u1"]) + 1

\* The last five entries of a history hold five distinct zones and span at most
\* five minutes.
FiveZonesInFiveMinutes(h) ==
    /\ Len(h) >= 5
    /\ Cardinality({h[i].zoneId : i \in Len(h) - 4 .. Len(h)}) = 5
    /\ h[Len(h)].timestamp - h[Len(h) - 4].timestamp <= 5 * 60

\* After the first five updates of a driver, all in different
\* zones and within two minutes, on a delivery without an expected route, the
\* delivery has exactly one alert, and it is the tampering alert.
C25_FiveZonesOneAlert ==
    LET h == driverHistory["u1"] IN
    (/\ Len(h) = 5
     /\ Cardinality(ZonesSeen("u1")) = 5
     /\ h[5].timestamp - h[1].timestamp <= 2 * 60
     /\ expectedRoutes["d1"] = NoRoute)
        => /\ Len(alertStore) = 1
           /\ alertStore[1].anomalyType = "tampering_detected"
           /\ alertStore[1].severity = "high"
           /\ deliveryAlerts["d1"] = <<1>>

StationaryFifteenMinutes(h, log) ==
    LET from == IF Len(h) > 10 THEN Len(h) - 9 ELSE 1
        st == {i \in from .. Len(h) : log[i] = "stationary"}
    IN  /\ Cardinality(st) >= 3
        /\ \E i, j \in st :
               /\ \A k \in st : i <= k /\ k <= j
               /\ h[j].timestamp - h[i].timestamp >= 15 * 60

\* C26: a location update yields an unusual_stop alert of severity low exactly
\* when, among the driver's last ten entries, at least three were reported
\* stationary, the first and last of them are at least fifteen minutes apart,
\* and the delivery has no unusual_stop alert detected in the last thirty
\* minutes.
C26_UnusualStopExactlyWhen ==
    [][IsLocationUpdate =>
          ((\E i \in DOMAIN AddedAlerts :
                AddedAlerts[i].anomalyType = "unusual_stop" /\ AddedAlerts[i].severity = "low")
              <=> /\ StationaryFifteenMinutes(driverHistory'["u1"], movementLog'["u1"])
                  /\ ~\E i \in DOMAIN alertStore :
                         /\ alertStore[i].deliveryId = "d1"
                         /\ alertStore[i].anomalyType = "unusual_stop"
                         /\ alertStore[i].detectedAt > now - 30 * 60)]_vars

\* The communication_lost alerts stored for a delivery.
CommLostAlerts(d) ==
    {i \in DOMAIN alertStore :
        alertStore[i].deliveryId = d /\ alertStore[i].anomalyType = "communication_lost"}

\* C27: checkCommunicationLoss returns (and stores) a communication_lost alert
\* exactly when the last fix is at least 10 minutes old and the delivery has no
\* communication_lost alert detected less than 15 minutes ago; the alert is
\* high when the silence exceeds 30 minutes and medium otherwise; and no two
\* stored communication_lost alerts of a delivery are less than 15 minutes apart.
C27_CommunicationLoss ==
    /\ \A d \in MonitorDeliveries, dr \in Drivers, silent \in SilentSeconds :
           LET alert == checkCommunicationLossResult(d, dr, silent) IN
           /\ alert # NoAlert
                  <=> /\ silent >= 10 * 60
                      /\ \A i \in CommLostAlerts(d) : alertStore[i].detectedAt <= now - 15 * 60
           /\ alert # NoAlert
                  => /\ alert.anomalyType = "communication_lost"
                     /\ alert.deliveryId = d
                     /\ alert.severity = IF silent > 30 * 60 THEN "high" ELSE "medium"
    /\ \A d \in MonitorDeliveries : \A i, j \in CommLostAlerts(d) :
           i < j => alertStore[j].detectedAt - alertStore[i].detectedAt >= 15 * 60
    /\ \A d \in MonitorDeliveries : \A i \in CommLostAlerts(d) :
           \E k \in DOMAIN deliveryAlerts[d] : deliveryAlerts[d][k] = i

\* C27 witness: one silence has stored a medium alert, and a check 15 minutes
\* later, past 30 minutes of silence, has stored a high one.
C27_Witness ==
    /\ Len(alertStore) = 2
    /\ CommLostAlerts("d1") = {1, 2}
    /\ alertStore[1].severity = "medium"
    /\ alertStore[2].severity = "high"
    /\ alertStore[2].detectedAt - alertStore[1].detectedAt = 15 * 60

\* C28: createFallbackVerification(D, code) returns valid and leaves D's
\* verification complete with completed methods [code] when code is the
\* upper-cased first 8 hex digits of HMAC-SHA256(hmacSecret, D); for any other
\* 8-character code it returns valid = false and changes no verification state.
C28_FallbackCode ==
    [][\A d \in Driven, c \in FallbackCodes :
          createFallbackVerification(d, c) =>
              IF c = ExpectedFallbackCode(d)
                 THEN /\ fallbackIsValid(d, c)
                      /\ verificationStore'[d].isComplete
                      /\ verificationStore'[d].methodsCompleted = <<"code">>
                 ELSE /\ ~fallbackIsValid(d, c)
                      /\ UNCHANGED verificationStore]_vars

\* C29: when a session closes, every event of an already initiated broadcast
\* that was on its way to that session, and so was not delivered to a live
\* session of the user, is in the user's offline queue afterwards.
C29_ClosureLosesNoEvent ==
    [][\A s \in QueueSessions :
          (disconnectBuffered(s) /\ clients[s] # NoClient)
              => \A i \in DOMAIN inFlight[s] :
                     inFlight[s][i] \in Range(offlineQueue'[clients[s].userId])]_vars

\* C30: every mutating endpoint requires authentication: a request without an
\* authenticated identity changes no state of the verification, emergency,
\* broadcast, notification or security services.
C30_MutationRequiresIdentity ==
    [][reqUser = NoUser =>
          UNCHANGED <<verificationStore, otpStore, photoStore, signatureStore,
                      emergencyVars, broadcastVars, notifierVars, monitorVars>>]_vars

\* An audit entry with result denied is among the entries.
HasDenied(entries) == \E i \in DOMAIN entries : entries[i].result = "denied"

\* C31: every request refused for an authentication or authorization reason
\* (INVALID_TOKEN 401 by authMiddleware, UNAUTHORIZED 401 by requireAuth,
\* FORBIDDEN 403 by requirePermission) produces an audit entry whose result is
\* denied.
C31_RefusalAuditedAsDenied ==
    [][/\ \A authHeader \in AuthHeaders :
              (authMiddleware(authHeader) /\ resStatus' = 401)
                  => HasDenied(authMiddlewareAudit(authHeader))
       /\ \A method \in HttpMethods, path \in HttpPaths :
              /\ (requireAuth /\ resStatus' = 401)
                     => HasDenied(sentResponseAudit(method, path, 401))
              /\ \A permission \in Permissions :
                     (requirePermission(permission) /\ resStatus' = 403)
                         => HasDenied(sentResponseAudit(method, path, 403))]_vars

\* C32: a verifyOTP call that reaches the token comparison increments the
\* attemptCount of the record it works on, the successful call included; and
\* presenting the accepted token again right after its acceptance returns
\* valid = false with reason invalid_otp, never success.
C32_IncrementAndReplay ==
    [][\A d \in Driven, t \in Tokens :
          verifyOTP(d, t) =>
              LET i == PendingIndex(otpStore, d)
                  result == verifyOTPResult(d, t)
              IN  /\ Compared(result)
                         => otpStore'[i].attemptCount = otpStore[i].attemptCount + 1
                  /\ result.isValid
                         => /\ otpStore'[i].isVerified
                            /\ ~verifyOTPResult(d, t)'.isValid
                            /\ verifyOTPResult(d, t)'.reason = "invalid_otp"]_vars

\* C33: verifyGeofence emits exactly one audit entry per call, inside or outside
\* the radius and whether or not the call completes the verification; outside
\* the radius the verification record is unchanged, within it geofence is among
\* the completed methods afterwards.
C33_GeofenceOneAuditEntry ==
    [][\A d \in Driven, distance \in Distances, driverLocation \in DriverFixes :
          verifyGeofence(d, distance, DEFAULT_GEOFENCE_RADIUS) =>
              /\ Len(verifyGeofenceAudit(d, driverLocation, distance,
                                         DEFAULT_GEOFENCE_RADIUS)) = 1
              /\ distance > DEFAULT_GEOFENCE_RADIUS => UNCHANGED verificationStore
              /\ distance <= DEFAULT_GEOFENCE_RADIUS
                     => "geofence" \in Range(verificationStore'[d].methodsCompleted)]_vars

\* C34: acknowledgeAlert and resolveAlert on an alert id that does not exist
\* return false (404 from the route) and leave the alert store and the audit
\* log as they are; the per-delivery index always lists exactly the stored
\* alerts.
C34_MissingAlertNotFound ==
    /\ \A alertId \in 1 .. MaxAlerts + 1, by \in Officers, status \in ResolutionStatuses :
           alertId \notin DOMAIN alertStore =>
               /\ ~acknowledgeAlertResult(alertId)
               /\ alertRouteStatus(acknowledgeAlertResult(alertId)) = 404
               /\ acknowledgedStore(alertId, by) = alertStore
               /\ acknowledgeAlertAudit(alertId, by) = <<>>
               /\ ~resolveAlertResult(alertId)
               /\ alertRouteStatus(resolveAlertResult(alertId)) = 404
               /\ resolvedStore(alertId, by, status) = alertStore
               /\ resolveAlertAudit(alertId, by, status) = <<>>
    /\ \A d \in MonitorDeliveries :
           Range(deliveryAlerts[d]) = {i \in DOMAIN alertStore : alertStore[i].deliveryId = d}

\* C34 witness: one alert is stored, acknowledged and resolved, and the next id
\* names no alert.
C34_Witness ==
    /\ Len(alertStore) = 1
    /\ alertStore[1].isAcknowledged
    /\ alertStore[1].resolution # NoResolution
    /\ ~acknowledgeAlertResult(2)

\* Pushing an entry on a history keeps it within 100 entries, puts the entry
\* last and keeps the most recent earlier entries in their order.
PushIsFifo(history, entry) ==
    LET after == pushHistory(history, entry) IN
    /\ Len(after) <= 100
    /\ after[Len(after)] = entry
    /\ IF Len(history) < 100
          THEN SubSeq(after, 1, Len(after) - 1) = history
          ELSE SubSeq(after, 1, Len(after) - 1) = SubSeq(history, 2, Len(history))

\* C35: each driver's location history is a bounded FIFO: it never holds more
\* than 100 entries, an update appends the new entry at the end and, at 100
\* entries, drops the oldest one, and it leaves every other driver's history
\* as it is.
C35_HistoryBoundedFifo ==
    [][\A dr \in Drivers :
          LET before == driverHistory[dr]
              after == driverHistory'[dr]
          IN  /\ Len(after) <= 100
              /\ PushIsFifo(after, [zoneId |-> 1, timestamp |-> now', isMoving |-> TRUE])
              /\ after # before =>
                    /\ after[Len(after)].timestamp = now
                    /\ IF Len(before) < 100
                          THEN SubSeq(after, 1, Len(after) - 1) = before
                          ELSE /\ Len(after) = 100
                               /\ SubSeq(after, 1, 99) = SubSeq(before, 2, 100)
                    /\ \A other \in Drivers \ {dr} :
                           driverHistory'[other] = driverHistory[other]]_vars

\* C35 witness: the first driver's history is full and has lost its oldest
\* entry, with the second driver's entry still in place.
C35_Witness ==
    /\ Len(driverHistory["u1"]) = 100
    /\ driverHistory["u1"][100].timestamp - driverHistory["u1"][1].timestamp = 99
    /\ driverHistory["u1"][100].timestamp = 101
    /\ Len(driverHistory["u2"]) = 1

----------------------------------------------------------------------------
(* Claims about the emergency index and the emergency life cycle *)

\* C36: processAccelerometerData keeps at most the last 30 readings of a
\* driver, and it creates an accident_detected emergency exactly when the
\* reading's magnitude is at least 4.0 and the driver has no emergency record
\* whose status is not resolved.
C36_AccidentExactlyWhen ==
    [][\A dr \in Drivers, reading \in Readings, loc \in Locations,
          del \in OptDeliveries :
          processAccelerometerData(dr, reading, loc, del) =>
              /\ Len(accelerometerHistory'[dr]) <= MaxAccelerometerHistory
              /\ accelerometerHistory'[dr][Len(accelerometerHistory'[dr])] = reading
              /\ (ImpactDetected(reading) /\ Unresolved(dr) = {})
                     <=> /\ Len(emergencyStore') = Len(emergencyStore) + 1
                         /\ emergencyStore'[Len(emergencyStore')].driverId = dr
                         /\ emergencyStore'[Len(emergencyStore')].emergencyType
                                = "accident_detected"]_vars

\* The active-emergency index agrees with the emergency store.
IndexConsistent ==
    \A dr \in Drivers :
        /\ activeEmergencies[dr] # 0 <=> Unresolved(dr) # {}
        /\ activeEmergencies[dr] # 0 => activeEmergencies[dr] \in Unresolved(dr)

\* C37: in every reachable state a driver has an active entry if and only if
\* the driver has a non-resolved emergency record, and the entry points to
\* that record; resolveEmergency(id) removes a driver's active entry only
\* when id is the emergency the entry points to.
C37_ActiveIndexConsistent ==
    [][/\ IndexConsistent'
       /\ \A id \in 1 .. Len(emergencyStore), dr \in Drivers :
              (/\ resolveEmergency(id)
               /\ activeEmergencies[dr] # 0
               /\ activeEmergencies'[dr] = 0) => activeEmergencies[dr] = id]_vars

\* Position of a status in triggered -> responding -> acknowledged -> resolved.
StatusRank(status) ==
    CASE status = "triggered" -> 1
      [] status = "responding" -> 2
      [] status = "acknowledged" -> 3
      [] status = "resolved" -> 4

\* C38: the status of an emergency record only moves forward through
\* triggered -> responding -> acknowledged -> resolved: no step moves a record
\* to an earlier status, and a resolved record stays resolved.
C38_StatusOnlyForward ==
    [][\A i \in 1 .. Len(emergencyStore) :
          StatusRank(emergencyStore'[i].status) >= StatusRank(emergencyStore[i].status)]_vars

----------------------------------------------------------------------------
(* Claims about who receives a broadcast *)

\* C39: a session that has not completed authenticate never receives an
\* event: every session a broadcast emits to, delivery-room members included,
\* is bound to an identity (userId, role).
C39_ReceiversAreAuthenticated ==
    [][\A audience \in Audiences :
          broadcast(audience) =>
              \A s \in Sessions :
                  broadcastEmits(s, audience) > 0 => clients[s] # NoClient]_vars

----------------------------------------------------------------------------
(* Claims about regenerated one-time passwords *)

\* C40: a freshly generated OTP is verifiable: when generateOTP(D, R) is
\* called while earlier unverified records of D exist, expired or not, a
\* verifyOTP(D, token) with the returned token right after the call returns
\* valid = true.
C40_FreshOtpVerifiable ==
    [][\A d \in Driven, r \in Recipients :
          (generateOTP(d, r) /\ PendingIndex(otpStore, d) # 0) =>
              /\ verifyOTPResult(d, TotpGenerate(now))'.isValid
              /\ verifyOTPResult(d, TotpGenerate(now))'.reason # "otp_expired"]_vars

==============================================================================
